---- MODULE Spec2Model ----
(***************************************************************************)
(* Model of the claide-terminal core: the PTY reader thread with its OSC   *)
(* sniffer (pty_reader.rs), the event listener (listener.rs) and the       *)
(* handle's teardown and snapshot entry points (handle.rs).                *)
(*                                                                         *)
(* Byte strings are sequences of integers 0..255.  Rust slices are         *)
(* 0-based; Slice(d, a, b) is d[a..b] and At(d, i) is d[i].                *)
(***************************************************************************)
EXTENDS Integers, Sequences, FiniteSets, TLC

(***************************************************************************)
(* Byte-string helpers                                                     *)
(***************************************************************************)
At(d, i) == d[i + 1]

Slice(d, a, b) == SubSeq(d, a + 1, b)

SliceFrom(d, a) == SubSeq(d, a + 1, Len(d))

SetMin(S) == CHOOSE x \in S : \A y \in S : x <= y

StartsWith(d, p) == Len(d) >= Len(p) /\ SubSeq(d, 1, Len(p)) = p

Run(b, n) == [i \in 1..n |-> b]

ESC == 27

BEL == 7

BACKSLASH == 92

SEMICOLON == 59

\* b"\x1b]7;"
OSC7_INTRO == <<27, 93, 55, 59>>

\* b"\x1b]9;4;"
OSC94_INTRO == <<27, 93, 57, 59, 52, 59>>

\* the 4 KiB payload cap of the sniffer
OSC_CAP == 4096

(***************************************************************************)
(* std::str::from_utf8: the validity check, on the byte level.             *)
(***************************************************************************)
IsCont(b) == b >= 128 /\ b <= 191

LeadLen(b) ==
    IF b < 128 THEN 1
    ELSE IF b >= 194 /\ b <= 223 THEN 2
    ELSE IF b >= 224 /\ b <= 239 THEN 3
    ELSE IF b >= 240 /\ b <= 244 THEN 4
    ELSE 0

SecondOk(lead, b) ==
    IF lead = 224 THEN b >= 160 /\ b <= 191
    ELSE IF lead = 237 THEN b >= 128 /\ b <= 159
    ELSE IF lead = 240 THEN b >= 144 /\ b <= 191
    ELSE IF lead = 244 THEN b >= 128 /\ b <= 143
    ELSE IsCont(b)

IsUtf8(s) ==
    \A i \in 1..Len(s) :
        IF IsCont(s[i])
        THEN \E k \in 1..3 :
                /\ i - k >= 1
                /\ LeadLen(s[i - k]) > k
                /\ \A j \in 1..(k - 1) : IsCont(s[i - j])
        ELSE /\ LeadLen(s[i]) >= 1
             /\ i + LeadLen(s[i]) - 1 <= Len(s)
             /\ \A j \in 1..(LeadLen(s[i]) - 1) : IsCont(s[i + j])
             /\ LeadLen(s[i]) >= 2 => SecondOk(s[i], s[i + 1])

(***************************************************************************)
(* find_osc_terminator: the first BEL or ESC \ of data, given up at the    *)
(* first non-terminator byte whose index is above the cap.                 *)
(***************************************************************************)
IsTermAt(data, i) ==
    \/ At(data, i) = BEL
    \/ At(data, i) = ESC /\ i + 1 < Len(data) /\ At(data, i + 1) = BACKSLASH

\* faulty variant of find_osc_terminator: only BEL ends a sequence
find_osc_terminator_BelOnly(data) ==
    LET stops == {i \in 0..(Len(data) - 1) : At(data, i) = BEL \/ i > OSC_CAP}
    IN  IF stops = {} THEN [found |-> FALSE, end |-> 0, tlen |-> 0]
        ELSE LET i == SetMin(stops)
             IN  IF At(data, i) = BEL THEN [found |-> TRUE, end |-> i, tlen |-> 1]
                 ELSE [found |-> FALSE, end |-> 0, tlen |-> 0]

find_osc_terminator(data) ==
    LET stops == {i \in 0..(Len(data) - 1) : IsTermAt(data, i) \/ i > OSC_CAP}
    IN  IF stops = {} THEN [found |-> FALSE, end |-> 0, tlen |-> 0]
        ELSE LET i == SetMin(stops)
             IN  IF At(data, i) = BEL THEN [found |-> TRUE, end |-> i, tlen |-> 1]
                 ELSE IF IsTermAt(data, i) THEN [found |-> TRUE, end |-> i, tlen |-> 2]
                 ELSE [found |-> FALSE, end |-> 0, tlen |-> 0]


(***************************************************************************)
(* str::parse for u8 and i32 (decimal, optional sign, overflow is an       *)
(* error) and parse_osc94_content.                                         *)
(***************************************************************************)
IsDigit(b) == b >= 48 /\ b <= 57

RECURSIVE DecVal(_)
DecVal(s) == IF s = <<>> THEN 0
             ELSE 10 * DecVal(SubSeq(s, 1, Len(s) - 1)) + (s[Len(s)] - 48)

RECURSIVE NegDecVal(_)
NegDecVal(s) == IF s = <<>> THEN 0
                ELSE 10 * NegDecVal(SubSeq(s, 1, Len(s) - 1)) - (s[Len(s)] - 48)

\* the significant digits of a digit string (leading zeros dropped)
Significant(s) ==
    LET nz == {i \in 1..Len(s) : s[i] # 48}
    IN  IF nz = {} THEN <<>> ELSE SubSeq(s, SetMin(nz), Len(s))

AllDigits(s) == s # <<>> /\ \A i \in 1..Len(s) : IsDigit(s[i])

\* numeric order of two digit strings without leading zeros
DigitsLeq(a, b) ==
    \/ Len(a) < Len(b)
    \/ /\ Len(a) = Len(b)
       /\ \/ a = b
          \/ \E i \in 1..Len(a) : /\ a[i] < b[i]
                                  /\ \A j \in 1..(i - 1) : a[j] = b[j]

\* "255", "2147483647", "2147483648"
U8_MAX_DIGITS == <<50, 53, 53>>

I32_MAX_DIGITS == <<50, 49, 52, 55, 52, 56, 51, 54, 52, 55>>

I32_MIN_DIGITS == <<50, 49, 52, 55, 52, 56, 51, 54, 52, 56>>

parse_u8(s) ==
    LET body == IF s # <<>> /\ s[1] = 43 THEN Tail(s) ELSE s
    IN  IF AllDigits(body) /\ DigitsLeq(Significant(body), U8_MAX_DIGITS)
        THEN [ok |-> TRUE, val |-> DecVal(Significant(body))]
        ELSE [ok |-> FALSE, val |-> 0]

parse_i32(s) ==
    LET neg == s # <<>> /\ s[1] = 45
        body == IF s # <<>> /\ (s[1] = 43 \/ s[1] = 45) THEN Tail(s) ELSE s
    IN  IF ~AllDigits(body) THEN [ok |-> FALSE, val |-> 0]
        ELSE IF ~neg /\ DigitsLeq(Significant(body), I32_MAX_DIGITS)
        THEN [ok |-> TRUE, val |-> DecVal(Significant(body))]
        ELSE IF neg /\ DigitsLeq(Significant(body), I32_MIN_DIGITS)
        THEN [ok |-> TRUE, val |-> NegDecVal(Significant(body))]
        ELSE [ok |-> FALSE, val |-> 0]

\* s.split(';'): the first field, and the second when there is one
SplitFields(s) ==
    LET semis == {i \in 1..Len(s) : s[i] = SEMICOLON}
    IN  IF semis = {} THEN [first |-> s, hasSecond |-> FALSE, second |-> <<>>]
        ELSE LET a == SetMin(semis)
                 later == {i \in semis : i > a}
                 b == IF later = {} THEN Len(s) + 1 ELSE SetMin(later)
             IN  [first |-> SubSeq(s, 1, a - 1), hasSecond |-> TRUE,
                  second |-> SubSeq(s, a + 1, b - 1)]

NoReport == [ok |-> FALSE, state |-> 0, progress |-> 0]

\* faulty variant of parse_osc94_content: the range check is off by one and
\* a missing progress field reads as 0
parse_osc94_content_Lax(content) ==
    IF ~IsUtf8(content) THEN NoReport
    ELSE LET parts == SplitFields(content)
             st == parse_u8(parts.first)
         IN  IF ~st.ok \/ st.val > 5 THEN NoReport
             ELSE IF parts.hasSecond /\ parts.second # <<>>
                  THEN LET pr == parse_i32(parts.second)
                       IN  IF pr.ok THEN [ok |-> TRUE, state |-> st.val, progress |-> pr.val]
                           ELSE NoReport
                  ELSE [ok |-> TRUE, state |-> st.val, progress |-> 0]

parse_osc94_content(content) ==
    IF ~IsUtf8(content) THEN NoReport
    ELSE LET parts == SplitFields(content)
             st == parse_u8(parts.first)
         IN  IF ~st.ok \/ st.val > 4 THEN NoReport
             ELSE IF parts.hasSecond /\ parts.second # <<>>
                  THEN LET pr == parse_i32(parts.second)
                       IN  IF pr.ok THEN [ok |-> TRUE, state |-> st.val, progress |-> pr.val]
                           ELSE NoReport
                  ELSE [ok |-> TRUE, state |-> st.val, progress |-> -1]

(***************************************************************************)
(* scan_osc7 and scan_osc94.  Each returns the events of the batch and the *)
(* continuation buffer it leaves.  ScanLoop7/ScanLoop94 are the memchr     *)
(* loops (from lines 144 and 214).  The source's recursive call on the     *)
(* rest of the batch runs with an empty buffer, so it is the loop started  *)
(* at the rest's offset.  Every event carries `at`, the offset of its      *)
(* terminator in the batch: a note for stating orderings, not read by the  *)
(* code.                                                                   *)
(***************************************************************************)
EscFrom(data, pos) == {i \in pos..(Len(data) - 1) : At(data, i) = ESC}

RECURSIVE ScanLoop7(_, _, _)
ScanLoop7(data, pos, results) ==
    IF EscFrom(data, pos) = {} THEN [results |-> results, partial |-> <<>>]
    ELSE LET esc_pos == SetMin(EscFrom(data, pos))
         IN  IF StartsWith(SliceFrom(data, esc_pos), OSC7_INTRO)
             THEN LET url_start == esc_pos + 4
                      t == find_osc_terminator(SliceFrom(data, url_start))
                      url == Slice(data, url_start, url_start + t.end)
                  IN  IF t.found
                      THEN ScanLoop7(data, url_start + t.end + t.tlen,
                                     IF IsUtf8(url)
                                     THEN Append(results, [url |-> url, at |-> url_start + t.end])
                                     ELSE results)
                      ELSE [results |-> results, partial |-> SliceFrom(data, url_start)]
             ELSE ScanLoop7(data, esc_pos + 1, results)

scan_osc7(data, partial) ==
    IF partial # <<>>
    THEN LET t == find_osc_terminator(data)
         IN  IF t.found
             THEN LET whole == partial \o Slice(data, 0, t.end)
                  IN  ScanLoop7(data, t.end + t.tlen,
                                IF IsUtf8(whole) THEN <<[url |-> whole, at |-> t.end]>>
                                ELSE <<>>)
             ELSE IF Len(data) + Len(partial) > OSC_CAP
                  THEN ScanLoop7(data, 0, <<>>)
                  ELSE [results |-> <<>>, partial |-> partial \o data]
    ELSE ScanLoop7(data, 0, <<>>)

RECURSIVE ScanLoop94(_, _, _)
ScanLoop94(data, pos, results) ==
    IF EscFrom(data, pos) = {} THEN [results |-> results, partial |-> <<>>]
    ELSE LET esc_pos == SetMin(EscFrom(data, pos))
         IN  IF StartsWith(SliceFrom(data, esc_pos), OSC94_INTRO)
             THEN LET content_start == esc_pos + 6
                      t == find_osc_terminator(SliceFrom(data, content_start))
                      rep == parse_osc94_content(
                                 Slice(data, content_start, content_start + t.end))
                  IN  IF t.found
                      THEN ScanLoop94(data, content_start + t.end + t.tlen,
                                      IF rep.ok
                                      THEN Append(results, [state |-> rep.state,
                                                            progress |-> rep.progress,
                                                            at |-> content_start + t.end])
                                      ELSE results)
                      ELSE [results |-> results, partial |-> SliceFrom(data, content_start)]
             ELSE ScanLoop94(data, esc_pos + 1, results)

scan_osc94(data, partial) ==
    IF partial # <<>>
    THEN LET t == find_osc_terminator(data)
         IN  IF t.found
             THEN LET rep == parse_osc94_content(partial \o Slice(data, 0, t.end))
                  IN  ScanLoop94(data, t.end + t.tlen,
                                 IF rep.ok
                                 THEN <<[state |-> rep.state, progress |-> rep.progress,
                                         at |-> t.end]>>
                                 ELSE <<>>)
             ELSE IF Len(data) + Len(partial) > OSC_CAP
                  THEN ScanLoop94(data, 0, <<>>)
                  ELSE [results |-> <<>>, partial |-> partial \o data]
    ELSE ScanLoop94(data, 0, <<>>)

(***************************************************************************)
(* The snapshot engine (grid_snapshot.rs).  An Rgb is a triple <<r, g, b>>;*)
(* a Color is Spec(rgb), Named(name) or Indexed(i); a cell has a           *)
(* codepoint c, colours fg and bg and a set of flags.  The emulator's      *)
(* colour table (term.colors()) is a function from the indices a program   *)
(* has set (OSC 4, 10, 11) to their Rgb.                                   *)
(***************************************************************************)
ColorSpec(rgb) == [tag |-> "Spec", rgb |-> rgb, idx |-> 0]

\* NamedColor as usize
NamedIndex(name) ==
    CASE name = "Red" -> 1
      [] name = "Foreground" -> 256
      [] name = "Background" -> 257
      [] name = "Cursor" -> 258
      [] name = "DimForeground" -> 268

ColorNamed(name) == [tag |-> "Named", rgb |-> <<0, 0, 0>>, idx |-> NamedIndex(name)]

ColorIndexed(i) == [tag |-> "Indexed", rgb |-> <<0, 0, 0>>, idx |-> i]

DEFAULT_ANSI ==
    << <<0, 0, 0>>, <<255, 92, 87>>, <<90, 247, 142>>, <<243, 249, 157>>,
       <<87, 199, 255>>, <<255, 106, 193>>, <<154, 237, 254>>, <<241, 241, 240>>,
       <<104, 104, 104>>, <<255, 92, 87>>, <<90, 247, 142>>, <<243, 249, 157>>,
       <<87, 199, 255>>, <<255, 106, 193>>, <<154, 237, 254>>, <<239, 240, 235>> >>

DEFAULT_FG == <<239, 240, 235>>

DEFAULT_BG == <<21, 23, 40>>

\* impl Default for ColorPalette
DefaultPalette == [ansi |-> DEFAULT_ANSI, fg |-> DEFAULT_FG, bg |-> DEFAULT_BG]

\* one channel of the 6x6x6 cube
CubeChannel(k) == IF k > 0 THEN k * 40 + 55 ELSE 0

\* lines 139-141, with the green component taken as idx / 6, not reduced
\* modulo 6: a faulty variant of resolve_color
resolve_color_GreenNotReduced(color, colors, is_foreground, palette) ==
    IF color.tag = "Spec" THEN color.rgb
    ELSE IF color.idx \in DOMAIN colors THEN colors[color.idx]
    ELSE IF color.tag = "Named"
    THEN IF color.idx = NamedIndex("Foreground") THEN palette.fg
         ELSE IF color.idx = NamedIndex("Background") THEN palette.bg
         ELSE IF color.idx < 16 THEN palette.ansi[color.idx + 1]
         ELSE IF is_foreground THEN palette.fg ELSE palette.bg
    ELSE IF color.idx < 16 THEN palette.ansi[color.idx + 1]
    ELSE IF color.idx < 232
    THEN LET idx == color.idx - 16
         IN  <<CubeChannel(idx \div 36), CubeChannel(idx \div 6) % 256,
               CubeChannel(idx % 6)>>
    ELSE LET v == (8 + (color.idx - 232) * 10) % 256
         IN  <<v, v, v>>

resolve_color(color, colors, is_foreground, palette) ==
    IF color.tag = "Spec" THEN color.rgb
    ELSE IF color.idx \in DOMAIN colors THEN colors[color.idx]
    ELSE IF color.tag = "Named"
    THEN IF color.idx = NamedIndex("Foreground") THEN palette.fg
         ELSE IF color.idx = NamedIndex("Background") THEN palette.bg
         ELSE IF color.idx < 16 THEN palette.ansi[color.idx + 1]
         ELSE IF is_foreground THEN palette.fg ELSE palette.bg
    ELSE IF color.idx < 16 THEN palette.ansi[color.idx + 1]
    ELSE IF color.idx < 232
    THEN LET idx == color.idx - 16
         IN  <<CubeChannel(idx \div 36), CubeChannel((idx \div 6) % 6),
               CubeChannel(idx % 6)>>
    ELSE LET v == (8 + (color.idx - 232) * 10) % 256
         IN  <<v, v, v>>

FlagBit(flags, name, bit) == IF name \in flags THEN bit ELSE 0

map_flags(flags) ==
    FlagBit(flags, "BOLD", 1) + FlagBit(flags, "ITALIC", 2)
    + FlagBit(flags, "UNDERLINE", 4) + FlagBit(flags, "STRIKEOUT", 8)
    + FlagBit(flags, "DIM", 16) + FlagBit(flags, "INVERSE", 32)
    + FlagBit(flags, "WIDE_CHAR", 64) + FlagBit(flags, "WIDE_CHAR_SPACER", 128)
    + FlagBit(flags, "HIDDEN", 256)

\* the ABI bits process_row adds
SELECTED == 512

SEARCH_MATCH == 1024

has_default_bg(cell) ==
    LET bg_color == IF "INVERSE" \in cell.flags THEN cell.fg ELSE cell.bg
    IN  bg_color.tag = "Named" /\ bg_color.idx = NamedIndex("Background")

\* Point ordering: by line, then by column
PointLeq(a, b) == a.line < b.line \/ (a.line = b.line /\ a.col <= b.col)

NoRange == [some |-> FALSE, start |-> [line |-> 0, col |-> 0],
            end |-> [line |-> 0, col |-> 0]]

SomeRange(a, b) == [some |-> TRUE, start |-> a, end |-> b]

\* SelectionRange::contains of a range that is no block
RangeContains(r, point) ==
    /\ r.start.line <= point.line /\ r.end.line >= point.line
    /\ (r.start.col <= point.col \/ r.start.line # point.line)
    /\ (r.end.col >= point.col \/ r.end.line # point.line)

\* lines 216-229: the cell of column col_idx is left out
SkipsCell(cell, point, selection_range, search_match) ==
    LET selected == selection_range.some /\ RangeContains(selection_range, point)
        is_search_match == /\ search_match.some
                           /\ PointLeq(search_match.start, point)
                           /\ PointLeq(point, search_match.end)
        is_blank == cell.c = 32 \/ cell.c = 0 \/ cell.c = 127
        is_wide == cell.flags \cap {"WIDE_CHAR", "WIDE_CHAR_SPACER"} # {}
    IN  is_blank /\ has_default_bg(cell) /\ ~selected /\ ~is_search_match /\ ~is_wide

HalfRgb(rgb) == <<rgb[1] \div 2, rgb[2] \div 2, rgb[3] \div 2>>

\* lines 231-269: the ClaideCellData of a cell that is not left out
CellData(cell, row_idx, col_idx, point, colors, palette, selection_range, search_match) ==
    LET selected == selection_range.some /\ RangeContains(selection_range, point)
        is_search_match == /\ search_match.some
                           /\ PointLeq(search_match.start, point)
                           /\ PointLeq(point, search_match.end)
        inv == "INVERSE" \in cell.flags
        fg0 == IF inv THEN resolve_color(cell.bg, colors, TRUE, palette)
               ELSE resolve_color(cell.fg, colors, TRUE, palette)
        bg == IF inv THEN resolve_color(cell.fg, colors, FALSE, palette)
              ELSE resolve_color(cell.bg, colors, FALSE, palette)
        fg == IF "DIM" \in cell.flags THEN HalfRgb(fg0) ELSE fg0
    IN  [row |-> row_idx, col |-> col_idx, codepoint |-> cell.c, fg |-> fg, bg |-> bg,
         flags |-> map_flags(cell.flags) + (IF selected THEN SELECTED ELSE 0)
                   + (IF is_search_match THEN SEARCH_MATCH ELSE 0)]

process_row(grid_row, row_idx, cols, line, colors, palette, selection_range, search_match) ==
    LET kept == {i \in 0..(cols - 1) :
                    ~SkipsCell(At(grid_row, i), [line |-> line, col |-> i],
                               selection_range, search_match)}
        RECURSIVE Emit(_)
        Emit(i) ==
            IF i >= cols THEN <<>>
            ELSE (IF i \in kept
                  THEN <<CellData(At(grid_row, i), row_idx, i, [line |-> line, col |-> i],
                                  colors, palette, selection_range, search_match)>>
                  ELSE <<>>) \o Emit(i + 1)
    IN  Emit(0)

(***************************************************************************)
(* State                                                                   *)
(***************************************************************************)
VARIABLES
    hpc,            \* host thread: "run", "snap", "d_kill", "d_join", "d_fields", "gone"
    shutdown,       \* TerminalHandle.shutdown (AtomicBool)
    masterOpen,     \* TerminalHandle.pty_master (OwnedFd) is open
    readerFdOpen,   \* the reader's dup of the master is open
    termLock,       \* owner of the emulator mutex: "free", "reader", "host"
    termFed,        \* the bytes the VT parser has been fed, in order
    rpc,            \* reader thread: position in run_reader
    pending,        \* run_reader's pending buffer
    fedIdx,         \* how many bytes of pending parser.advance has consumed
    osc7_partial,   \* continuation buffer of scan_osc7
    osc94_partial,  \* continuation buffer of scan_osc94
    evq,            \* events returned by the scanner, not yet passed to the listener
    batchNo,        \* number of the batch being processed (1, 2, ...)
    pty,            \* bytes the child has written and the reader has not read
    child,          \* "running" or "exited"
    exitCode,       \* the child's exit code once it has exited
    ignoresHup,     \* the executable ignores or handles SIGHUP
    ctxNull,        \* the callback context given to create is null
    written,        \* history: every byte the child has written
    nwrites,        \* history: number of writes of the child
    batchMarks,     \* history: Len(termFed) at the end of every whole batch
    found,          \* history: events the scanners returned, batch by batch
    sent,           \* history: events the reader passed to the listener
    cb,             \* history: invocations of the host callback
    snap,           \* what the last snapshot observed of the emulator
    dlog,           \* history: the steps Drop has performed
    scanCall,       \* ScanSpec: the last call of the two scanners on a batch
    term,           \* the emulator: grid with history, cursor, viewport, selection, damage
    palette,        \* TerminalHandle.palette (ColorPalette)
    search,         \* TerminalHandle.search (SearchState)
    pgrid,          \* the PersistentGrid the snapshots are built in
    shot,           \* the last ClaideGridSnapshot returned
    vlog,           \* history: number of operations, the last one and what it returned
    closes,         \* history: how often each file descriptor has been closed
    wr,             \* history: the writes of the host, and whether the last one succeeded
    cenv,           \* create: the environments of the host and of the child
    fair,           \* the FairMutex of the emulator and the two threads that lock it
    calc,           \* the last call of a pure function: its name, arguments and result
    cnt,            \* run_reader followed by the lengths of its buffers only
    locks,          \* the three mutexes of a handle and the threads that take them
    crt             \* create: how far it got and what it has acquired

hostVars == <<hpc, shutdown, masterOpen, snap, dlog>>

termVars == <<termLock, termFed, batchMarks>>

readerVars == <<rpc, pending, fedIdx, evq, batchNo, readerFdOpen>>

partialVars == <<osc7_partial, osc94_partial>>

envVars == <<pty, child, exitCode, ignoresHup, ctxNull, written, nwrites>>

logVars == <<found, sent, cb>>

viewVars == <<term, palette, search, pgrid, shot, vlog>>

sysVars == <<closes, wr, cenv, fair, calc, cnt, locks, crt>>

vars == <<hostVars, termVars, readerVars, partialVars, envVars, logVars, scanCall, viewVars, sysVars>>

(***************************************************************************)
(* The emulator of a new handle                                            *)
(***************************************************************************)
\* Cell::default(): a space in the default colours
BlankCell == [c |-> 32, fg |-> ColorNamed("Foreground"), bg |-> ColorNamed("Background"),
              flags |-> {}]

BlankLine(cols) == [i \in 1..cols |-> BlankCell]

NoSelection == [some |-> FALSE, ty |-> "Simple", start |-> [line |-> 0, col |-> 0],
                end |-> [line |-> 0, col |-> 0], sside |-> "Left", eside |-> "Left"]

\* the size create is called with
InitSize == [cols |-> 2, rows |-> 2]

\* Term::new(config, &dims, listener): lines holds the history, oldest line
\* first, and then the screen; a new emulator is fully damaged
FreshTerm(size) ==
    [rows |-> size.rows, cols |-> size.cols, hist |-> 0,
     lines |-> [l \in 1..size.rows |-> BlankLine(size.cols)],
     cursor |-> [line |-> 0, col |-> 0], wrap |-> FALSE, offset |-> 0,
     sel |-> NoSelection, colors |-> <<>>,
     dmg |-> [full |-> TRUE, lines |-> {}]]

\* SearchState { regex: None, current_match: None }
NoSearch == [regex |-> [some |-> FALSE, q |-> ""], current_match |-> NoRange]

\* PersistentGrid::new()
NewPersistentGrid == [row_cells |-> <<>>, total_cells |-> 0, grid_rows |-> 0, grid_cols |-> 0]

NoShot == [taken |-> FALSE, cells |-> <<>>, cell_count |-> 0, rows |-> 0, cols |-> 0,
           cursor |-> [row |-> 0, col |-> 0], padding_bg |-> <<0, 0, 0>>,
           full |-> FALSE, reset |-> FALSE]

\* n, op, ret: the number of operations, the last one and what it returned;
\* resizes, resets: the resizes that changed the size and the resets of the
\* row cache so far; pend: the resizes that changed the size since the
\* last snapshot, since: the same before the last snapshot; prev: the size
\* the snapshot before the last one reported; q, was, off: the query of
\* the last operation if it was a search_set, whether there was a current
\* match before it and the display offset before it if it was a search;
\* rep: the last operation was a search_set that came right after a
\* search_set of the same query; row: the row argument of the last
\* operation if it was a selection_start or a selection_update; chain: how
\* far the last operations got in selection_start, selection_clear,
\* selection_text; odd: the last operation was a snapshot whose damage list
\* held an index twice and an index past the last row; base: what the last
\* snapshot saw of the view and whether its cells were those of a full
\* rebuild; same: the last operation was a snapshot that saw of the view
\* what the snapshot before it saw; fresh: the last operation was a
\* snapshot and the cells of the snapshot before it were those of a full
\* rebuild
NoLog == [n |-> 0, op |-> "create", ret |-> FALSE, resizes |-> 0, resets |-> 0,
          pend |-> 0, since |-> 0, prev |-> [rows |-> 0, cols |-> 0],
          q |-> "", was |-> FALSE, off |-> 0, rep |-> FALSE, row |-> 0, chain |-> 0,
          odd |-> FALSE, base |-> [view |-> <<>>, exact |-> FALSE], same |-> FALSE,
          fresh |-> FALSE]

\* no environment: create has not run
NoEnv == [stage |-> "none", host |-> <<>>, env |-> <<>>, child |-> <<>>, i |-> 0]

\* no pure function has been called
NoCalc == [fn |-> "none", args |-> <<>>, out |-> <<>>]

\* run_reader before its loop: pending is empty.  pc: the position in
\* run_reader; pending: pending.len(); stop: the shutdown flag; batches:
\* the batches fed so far; n: the bytes the last read returned; at:
\* pending.len() before the last read of the drain (-1: none yet); flushed:
\* the bytes the flush after the loop has fed
NoCount == [pc |-> "top", pending |-> 0, stop |-> FALSE, batches |-> 0, n |-> 0,
            at |-> -1, flushed |-> 0]

\* the mutexes of a handle (handle.rs:78-84): term, palette and search
Mutexes == {"term", "palette", "search"}

\* the threads of the host that call the handle, and the reader thread
HostThreads == {"h1", "h2"}

\* no mutex of the handle is held and no operation is running.  owner: who
\* holds each mutex; op: the operation each host thread is in; want: the
\* mutexes it has still to lock, in the order of the code; some: the search
\* state holds a regex and a current match
NoLocks == [owner |-> [m \in Mutexes |-> "free"],
            op |-> [t \in HostThreads |-> "idle"],
            want |-> [t \in HostThreads |-> <<>>],
            some |-> FALSE]

\* create has not been called
NoCreate ==
    [stage |-> "none", failed |-> "none",
     master |-> FALSE, slave |-> FALSE, reader_fd |-> FALSE, thread |-> FALSE,
     child |-> "none", child_master |-> FALSE, ignores_hup |-> FALSE,
     hup |-> FALSE, status |-> -1]

\* FairMutex::new: the mutex is free and nobody waits for it; the reader
\* is about to read and the host is outside snapshot.  queue: the threads
\* that have called lock() and not got the mutex yet, in the order of
\* their calls; batches, snaps: the batches fed and the snapshots taken;
\* waited: the batches the reader began to feed since the host called lock()
NoFair == [owner |-> "free", queue |-> <<>>, rpc |-> "read", hpc |-> "idle",
           batches |-> 0, snaps |-> 0, waited |-> 0]

\* TerminalHandle::new: the fields the snapshot, colour, selection, scroll
\* and search operations work on; no descriptor of the new handle has been
\* closed and the host has written nothing
ViewFresh ==
    /\ term = FreshTerm(InitSize)
    /\ palette = DefaultPalette
    /\ search = NoSearch
    /\ pgrid = NewPersistentGrid
    /\ shot = NoShot
    /\ vlog = NoLog
    /\ closes = [master |-> 0, reader |-> 0]
    /\ wr = [n |-> 0, ok |-> TRUE]
    /\ cenv = NoEnv
    /\ fair = NoFair
    /\ calc = NoCalc
    /\ cnt = NoCount
    /\ locks = NoLocks
    /\ crt = NoCreate

(***************************************************************************)
(* Bounds and inputs of the reader model                                   *)
(***************************************************************************)
\* CString::new fails on a string with an interior NUL
HasNul(s) == \E i \in 1..Len(s) : s[i] = 0

\* the child writes at most this many chunks
MaxWrites == 2

\* capacity of the BufReader and of buf
READ_BUF == 65536

BATCH_LIMIT == 1048576

EV_WAKEUP == 0

EV_CHILD_EXIT == 3

EV_DIRECTORY_CHANGE == 4

EV_PROGRESS == 5

\* ESC ] 7 ; u BEL
Osc7Chunk == OSC7_INTRO \o <<117, BEL>>

\* ESC ] 9 ; 4 ; 1 BEL
Osc94Chunk == OSC94_INTRO \o <<49, BEL>>

\* ESC ] 7 ; NUL BEL: a url no C string can carry
Osc7NulChunk == OSC7_INTRO \o <<0, BEL>>

ChildChunks == {<<97>>, Osc7Chunk, Osc94Chunk, Osc7NulChunk}

ExitCodes == {0, 127}

(***************************************************************************)
(* Listener (listener.rs): a null context drops the event                  *)
(***************************************************************************)

send_directory_change(log, directory) ==
    IF ctxNull THEN log
    ELSE IF HasNul(directory) THEN log
    ELSE Append(log, [kind |-> EV_DIRECTORY_CHANGE, str |-> directory, int |-> 0])

send_progress_report(log, state, progress) ==
    IF ctxNull THEN log
    ELSE Append(log, [kind |-> EV_PROGRESS, str |-> <<>>,
                      int |-> state * 256 + (progress % 256)])

\* faulty variant of send_event_wakeup: the callback is made without a look
\* at the context
send_event_wakeup_NoNullCheck(log) ==
    Append(log, [kind |-> EV_WAKEUP, str |-> <<>>, int |-> 0])

send_event_wakeup(log) ==
    IF ctxNull THEN log
    ELSE Append(log, [kind |-> EV_WAKEUP, str |-> <<>>, int |-> 0])

(***************************************************************************)
(* The child and the kernel                                                *)
(***************************************************************************)
ChildWrite(c) ==
    /\ child = "running"
    /\ nwrites < MaxWrites
    /\ pty' = pty \o c
    /\ written' = written \o c
    /\ nwrites' = nwrites + 1
    /\ UNCHANGED <<child, exitCode, ignoresHup, ctxNull>>
    /\ UNCHANGED <<hostVars, termVars, readerVars, partialVars, logVars, scanCall, viewVars, sysVars>>

\* the child exits by itself; 127 is the exit after a failed execvp
ChildExits(code) ==
    /\ child = "running"
    /\ child' = "exited"
    /\ exitCode' = code
    /\ UNCHANGED <<pty, ignoresHup, ctxNull, written, nwrites>>
    /\ UNCHANGED <<hostVars, termVars, readerVars, partialVars, logVars, scanCall, viewVars, sysVars>>

\* a signal interrupts the reader's blocking read: Err(Interrupted) => continue
ReadInterrupted ==
    /\ rpc = "read"
    /\ rpc' = "top"
    /\ UNCHANGED <<pending, fedIdx, evq, batchNo, readerFdOpen>>
    /\ UNCHANGED <<hostVars, termVars, partialVars, envVars, logVars, scanCall, viewVars, sysVars>>

(***************************************************************************)
(* run_reader (pty_reader.rs:54-111) and the thread closure                *)
(* (handle.rs:196-200)                                                     *)
(***************************************************************************)
\* the loop without the check of line 55: a faulty variant of ReaderTop
ReaderTop_IgnoresShutdown ==
    /\ rpc = "top"
    /\ rpc' = "read"
    /\ UNCHANGED <<pending, fedIdx, evq, batchNo, readerFdOpen>>
    /\ UNCHANGED <<hostVars, termVars, partialVars, envVars, logVars, scanCall, viewVars, sysVars>>

\* line 55: the shutdown check at the top of the loop
ReaderTop ==
    /\ rpc = "top"
    /\ rpc' = IF shutdown THEN "after_loop" ELSE "read"
    /\ UNCHANGED <<pending, fedIdx, evq, batchNo, readerFdOpen>>
    /\ UNCHANGED <<hostVars, termVars, partialVars, envVars, logVars, scanCall, viewVars, sysVars>>

\* lines 60-67: the blocking read returns n > 0 bytes
ReaderRead(n) ==
    /\ rpc = "read"
    /\ n >= 1 /\ n <= Len(pty) /\ n <= READ_BUF
    /\ pending' = pending \o SubSeq(pty, 1, n)
    /\ pty' = SubSeq(pty, n + 1, Len(pty))
    /\ rpc' = "drain"
    /\ batchNo' = batchNo + 1
    /\ UNCHANGED <<fedIdx, evq, readerFdOpen>>
    /\ UNCHANGED <<child, exitCode, ignoresHup, ctxNull, written, nwrites>>
    /\ UNCHANGED <<hostVars, termVars, partialVars, logVars, scanCall, viewVars, sysVars>>

\* lines 61, 64: the slave side is closed and nothing is left: Ok(0) or an error
ReaderReadEnd ==
    /\ rpc = "read"
    /\ pty = <<>> /\ child = "exited"
    /\ rpc' = "after_loop"
    /\ UNCHANGED <<pending, fedIdx, evq, batchNo, readerFdOpen>>
    /\ UNCHANGED <<hostVars, termVars, partialVars, envVars, logVars, scanCall, viewVars, sysVars>>

\* lines 72-75: under the batch limit and readable: one more read
ReaderDrainRead(n) ==
    /\ rpc = "drain"
    /\ Len(pending) < BATCH_LIMIT
    /\ n >= 1 /\ n <= Len(pty) /\ n <= READ_BUF
    /\ pending' = pending \o SubSeq(pty, 1, n)
    /\ pty' = SubSeq(pty, n + 1, Len(pty))
    /\ UNCHANGED <<rpc, fedIdx, evq, batchNo, readerFdOpen>>
    /\ UNCHANGED <<child, exitCode, ignoresHup, ctxNull, written, nwrites>>
    /\ UNCHANGED <<hostVars, termVars, partialVars, logVars, scanCall, viewVars, sysVars>>

\* line 76: a signal interrupts a read of the drain; the loop goes on with
\* what it has accumulated
ReaderDrainInterrupted ==
    /\ rpc = "drain"
    /\ UNCHANGED <<rpc, pending, fedIdx, evq, batchNo, readerFdOpen>>
    /\ UNCHANGED <<hostVars, termVars, partialVars, envVars, logVars, scanCall, viewVars, sysVars>>

\* the end of the drain on a read that returns Ok(0) or an error throws
\* the accumulated bytes away and leaves the loop: a faulty variant
ReaderDrainEnd_Discards ==
    /\ rpc = "drain"
    /\ Len(pending) >= BATCH_LIMIT \/ pty = <<>>
    /\ rpc' = IF pty = <<>> /\ child = "exited" THEN "after_loop" ELSE "scan7"
    /\ pending' = IF pty = <<>> /\ child = "exited" THEN <<>> ELSE pending
    /\ UNCHANGED <<fedIdx, evq, batchNo, readerFdOpen>>
    /\ UNCHANGED <<hostVars, termVars, partialVars, envVars, logVars, scanCall, viewVars, sysVars>>

\* lines 72, 74, 77: at the limit, nothing readable, or the read ends the drain
ReaderDrainEnd ==
    /\ rpc = "drain"
    /\ Len(pending) >= BATCH_LIMIT \/ pty = <<>>
    /\ rpc' = "scan7"
    /\ UNCHANGED <<pending, fedIdx, evq, batchNo, readerFdOpen>>
    /\ UNCHANGED <<hostVars, termVars, partialVars, envVars, logVars, scanCall, viewVars, sysVars>>

\* line 82: scan_osc7(&pending, &mut osc7_partial)
ReaderScanOsc7 ==
    /\ rpc = "scan7"
    /\ LET r == scan_osc7(pending, osc7_partial)
       IN  /\ evq' = r.results
           /\ osc7_partial' = r.partial
           /\ found' = found \o [i \in 1..Len(r.results) |->
                                    [kind |-> EV_DIRECTORY_CHANGE,
                                     at |-> r.results[i].at, batch |-> batchNo,
                                     nul |-> HasNul(r.results[i].url)]]
    /\ rpc' = "emit7"
    /\ UNCHANGED <<pending, fedIdx, batchNo, readerFdOpen, osc94_partial>>
    /\ UNCHANGED <<hostVars, termVars, envVars, sent, cb, scanCall, viewVars, sysVars>>

\* faulty variant of ReaderSendDirectoryChange: the loop is given up after its first
\* event and the rest of the results is lost
ReaderSendDirectoryChange_GivesUp ==
    /\ rpc = "emit7" /\ evq # <<>>
    /\ sent' = Append(sent, [kind |-> EV_DIRECTORY_CHANGE, at |-> Head(evq).at,
                             batch |-> batchNo, nul |-> HasNul(Head(evq).url)])
    /\ cb' = send_directory_change(cb, Head(evq).url)
    /\ evq' = <<>>
    /\ UNCHANGED <<rpc, pending, fedIdx, batchNo, readerFdOpen>>
    /\ UNCHANGED <<hostVars, termVars, partialVars, envVars, found, scanCall, viewVars, sysVars>>

\* faulty variant of ReaderSendDirectoryChange: the results are taken from the back
ReaderSendDirectoryChange_Reversed ==
    /\ rpc = "emit7" /\ evq # <<>>
    /\ sent' = Append(sent, [kind |-> EV_DIRECTORY_CHANGE, at |-> evq[Len(evq)].at,
                             batch |-> batchNo, nul |-> HasNul(evq[Len(evq)].url)])
    /\ cb' = send_directory_change(cb, evq[Len(evq)].url)
    /\ evq' = SubSeq(evq, 1, Len(evq) - 1)
    /\ UNCHANGED <<rpc, pending, fedIdx, batchNo, readerFdOpen>>
    /\ UNCHANGED <<hostVars, termVars, partialVars, envVars, found, scanCall, viewVars, sysVars>>

\* line 83: listener.send_directory_change(&dir), one event per step
ReaderSendDirectoryChange ==
    /\ rpc = "emit7" /\ evq # <<>>
    /\ sent' = Append(sent, [kind |-> EV_DIRECTORY_CHANGE, at |-> Head(evq).at,
                             batch |-> batchNo, nul |-> HasNul(Head(evq).url)])
    /\ cb' = send_directory_change(cb, Head(evq).url)
    /\ evq' = Tail(evq)
    /\ UNCHANGED <<rpc, pending, fedIdx, batchNo, readerFdOpen>>
    /\ UNCHANGED <<hostVars, termVars, partialVars, envVars, found, scanCall, viewVars, sysVars>>

\* line 87: scan_osc94(&pending, &mut osc94_partial), once the first loop is over
ReaderScanOsc94 ==
    /\ rpc = "emit7" /\ evq = <<>>
    /\ LET r == scan_osc94(pending, osc94_partial)
       IN  /\ evq' = r.results
           /\ osc94_partial' = r.partial
           /\ found' = found \o [i \in 1..Len(r.results) |->
                                    [kind |-> EV_PROGRESS,
                                     at |-> r.results[i].at, batch |-> batchNo,
                                     nul |-> FALSE]]
    /\ rpc' = "emit94"
    /\ UNCHANGED <<pending, fedIdx, batchNo, readerFdOpen, osc7_partial>>
    /\ UNCHANGED <<hostVars, termVars, envVars, sent, cb, scanCall, viewVars, sysVars>>

\* line 88: listener.send_progress_report(state, progress), one event per step
ReaderSendProgressReport ==
    /\ rpc = "emit94" /\ evq # <<>>
    /\ sent' = Append(sent, [kind |-> EV_PROGRESS, at |-> Head(evq).at,
                             batch |-> batchNo, nul |-> FALSE])
    /\ cb' = send_progress_report(cb, Head(evq).state, Head(evq).progress)
    /\ evq' = Tail(evq)
    /\ UNCHANGED <<rpc, pending, fedIdx, batchNo, readerFdOpen>>
    /\ UNCHANGED <<hostVars, termVars, partialVars, envVars, found, scanCall, viewVars, sysVars>>

\* faulty variant of ReaderLock: the reader goes on without taking the mutex
ReaderLock_NoMutex ==
    /\ rpc = "emit94" /\ evq = <<>>
    /\ rpc' = "advance"
    /\ fedIdx' = 0
    /\ UNCHANGED <<termLock, termFed, batchMarks>>
    /\ UNCHANGED <<pending, evq, batchNo, readerFdOpen>>
    /\ UNCHANGED <<hostVars, partialVars, envVars, logVars, scanCall, viewVars, sysVars>>

\* line 93: term.lock(), once the second loop is over
ReaderLock ==
    /\ rpc = "emit94" /\ evq = <<>>
    /\ termLock = "free"
    /\ termLock' = "reader"
    /\ rpc' = "advance"
    /\ fedIdx' = 0
    /\ UNCHANGED <<termFed, batchMarks>>
    /\ UNCHANGED <<pending, evq, batchNo, readerFdOpen>>
    /\ UNCHANGED <<hostVars, partialVars, envVars, logVars, scanCall, viewVars, sysVars>>

\* line 94: parser.advance consumes the batch byte by byte
ReaderAdvance ==
    /\ rpc = "advance" /\ fedIdx < Len(pending)
    /\ termFed' = Append(termFed, At(pending, fedIdx))
    /\ fedIdx' = fedIdx + 1
    /\ UNCHANGED <<termLock, batchMarks>>
    /\ UNCHANGED <<rpc, pending, evq, batchNo, readerFdOpen>>
    /\ UNCHANGED <<hostVars, partialVars, envVars, logVars, scanCall, viewVars, sysVars>>

\* faulty variant of ReaderUnlock: the guard outlives the block, so the
\* reader still holds the mutex when it goes on to the Wakeup
ReaderUnlock_KeepsGuard ==
    /\ rpc = "advance" /\ fedIdx = Len(pending)
    /\ termLock' = termLock
    /\ batchMarks' = batchMarks \cup {Len(termFed)}
    /\ pending' = <<>>
    /\ fedIdx' = 0
    /\ rpc' = "wakeup"
    /\ UNCHANGED <<termFed, evq, batchNo, readerFdOpen>>
    /\ UNCHANGED <<hostVars, partialVars, envVars, logVars, scanCall, viewVars, sysVars>>

\* lines 95-96: the guard is dropped at the end of the block; pending.clear()
ReaderUnlock ==
    /\ rpc = "advance" /\ fedIdx = Len(pending)
    /\ termLock' = "free"
    /\ batchMarks' = batchMarks \cup {Len(termFed)}
    /\ pending' = <<>>
    /\ fedIdx' = 0
    /\ rpc' = "wakeup"
    /\ UNCHANGED <<termFed, evq, batchNo, readerFdOpen>>
    /\ UNCHANGED <<hostVars, partialVars, envVars, logVars, scanCall, viewVars, sysVars>>

\* faulty variant of ReaderWakeup: a batch without OSC events wakes nobody
ReaderWakeup_OnlyAfterOsc ==
    /\ rpc = "wakeup"
    /\ IF \E i \in 1..Len(sent) : sent[i].batch = batchNo
       THEN /\ sent' = Append(sent, [kind |-> EV_WAKEUP, at |-> 0, batch |-> batchNo, nul |-> FALSE])
            /\ cb' = send_event_wakeup(cb)
       ELSE UNCHANGED <<sent, cb>>
    /\ rpc' = "top"
    /\ UNCHANGED <<pending, fedIdx, evq, batchNo, readerFdOpen>>
    /\ UNCHANGED <<hostVars, termVars, partialVars, envVars, found, scanCall, viewVars, sysVars>>

\* line 98: listener.send_event(Event::Wakeup)
ReaderWakeup ==
    /\ rpc = "wakeup"
    /\ sent' = Append(sent, [kind |-> EV_WAKEUP, at |-> 0, batch |-> batchNo, nul |-> FALSE])
    /\ cb' = send_event_wakeup(cb)
    /\ rpc' = "top"
    /\ UNCHANGED <<pending, fedIdx, evq, batchNo, readerFdOpen>>
    /\ UNCHANGED <<hostVars, termVars, partialVars, envVars, found, scanCall, viewVars, sysVars>>

\* lines 102-110: the flush after the loop, then mem::forget of the File
ReaderAfterLoop ==
    /\ rpc = "after_loop"
    /\ IF pending # <<>>
       THEN /\ termLock = "free"
            /\ termFed' = termFed \o pending
            /\ batchMarks' = batchMarks \cup {Len(termFed) + Len(pending)}
            /\ sent' = Append(sent, [kind |-> EV_WAKEUP, at |-> 0, batch |-> batchNo, nul |-> FALSE])
            /\ cb' = send_event_wakeup(cb)
       ELSE UNCHANGED <<termFed, batchMarks, sent, cb>>
    /\ rpc' = "close_fd"
    /\ UNCHANGED <<termLock, pending, fedIdx, evq, batchNo, readerFdOpen>>
    /\ UNCHANGED <<hostVars, partialVars, envVars, found, scanCall, viewVars, sysVars>>

\* handle.rs:199: libc::close(reader_fd), then the thread ends
ReaderCloseFd ==
    /\ rpc = "close_fd"
    /\ readerFdOpen' = FALSE
    /\ closes' = [closes EXCEPT !.reader = @ + 1]
    /\ rpc' = "done"
    /\ UNCHANGED <<pending, fedIdx, evq, batchNo>>
    /\ UNCHANGED <<hostVars, termVars, partialVars, envVars, logVars, scanCall, viewVars>>
    /\ UNCHANGED <<wr, cenv, fair, calc, cnt, locks, crt>>

(***************************************************************************)
(* TerminalHandle::snapshot (handle.rs:282-287).  snap notes what the      *)
(* snapshot saw: how many bytes and whole batches the emulator had been    *)
(* fed, and how many events the listener had been passed by then.          *)
(***************************************************************************)
NoSnapshot == [taken |-> FALSE, len |-> 0, batches |-> 0, sentLen |-> 0]

\* line 283: self.term.lock()
SnapshotLock ==
    /\ hpc = "run"
    /\ termLock = "free"
    /\ termLock' = "host"
    /\ hpc' = "snap"
    /\ UNCHANGED <<termFed, batchMarks, shutdown, masterOpen, snap, dlog>>
    /\ UNCHANGED <<readerVars, partialVars, envVars, logVars, scanCall, viewVars, sysVars>>

\* line 286: take_snapshot reads the emulator; the guards drop on return
SnapshotTake ==
    /\ hpc = "snap"
    /\ snap' = [taken |-> TRUE, len |-> Len(termFed),
                batches |-> Cardinality(batchMarks) - 1, sentLen |-> Len(sent)]
    /\ termLock' = "free"
    /\ hpc' = "run"
    /\ UNCHANGED <<termFed, batchMarks, shutdown, masterOpen, dlog>>
    /\ UNCHANGED <<readerVars, partialVars, envVars, logVars, scanCall, viewVars, sysVars>>

(***************************************************************************)
(* TerminalHandle::write (handle.rs:232-238).  The bytes go to the child's *)
(* input, which the model does not follow; wr counts the writes and notes  *)
(* whether write_all succeeded.                                            *)
(***************************************************************************)
\* write whose File is dropped at the end of the function and closes the
\* master fd: a faulty variant
HostWrite_DropsFile(ok) ==
    /\ hpc = "run"
    /\ wr.n < MaxWrites
    /\ wr' = [n |-> wr.n + 1, ok |-> ok]
    /\ masterOpen' = FALSE
    /\ closes' = [closes EXCEPT !.master = @ + 1]
    /\ UNCHANGED <<hpc, shutdown, snap, dlog, cenv, fair, calc, cnt, locks, crt>>
    /\ UNCHANGED <<termVars, readerVars, partialVars, envVars, logVars, scanCall, viewVars>>

\* lines 233-237: File::from_raw_fd on the master fd, write_all, and
\* mem::forget of the File before the result is returned: no close
HostWrite(ok) ==
    /\ hpc = "run"
    /\ wr.n < MaxWrites
    /\ wr' = [n |-> wr.n + 1, ok |-> ok]
    /\ UNCHANGED <<masterOpen, closes>>
    /\ UNCHANGED <<hpc, shutdown, snap, dlog, cenv, fair, calc, cnt, locks, crt>>
    /\ UNCHANGED <<termVars, readerVars, partialVars, envVars, logVars, scanCall, viewVars>>

(***************************************************************************)
(* impl Drop for TerminalHandle (handle.rs:456-472)                        *)
(***************************************************************************)
\* line 459: self.shutdown.store(true)
DropSetShutdown ==
    /\ hpc = "run"
    /\ shutdown' = TRUE
    /\ dlog' = Append(dlog, "shutdown")
    /\ hpc' = "d_kill"
    /\ UNCHANGED <<masterOpen, snap>>
    /\ UNCHANGED <<termVars, readerVars, partialVars, envVars, logVars, scanCall, viewVars, sysVars>>

\* line 465: libc::kill(shell_pid, SIGHUP); the default action ends the child
DropKill ==
    /\ hpc = "d_kill"
    /\ dlog' = Append(dlog, "sighup")
    /\ IF child = "running" /\ ~ignoresHup
       THEN child' = "exited" /\ exitCode' = 129
       ELSE UNCHANGED <<child, exitCode>>
    /\ hpc' = "d_join"
    /\ UNCHANGED <<shutdown, masterOpen, snap>>
    /\ UNCHANGED <<pty, ignoresHup, ctxNull, written, nwrites>>
    /\ UNCHANGED <<termVars, readerVars, partialVars, logVars, scanCall, viewVars, sysVars>>

\* faulty variant of DropJoin: the handle does not wait for the reader
DropJoin_NoWait ==
    /\ hpc = "d_join"
    /\ dlog' = Append(dlog, "join")
    /\ hpc' = "d_fields"
    /\ UNCHANGED <<shutdown, masterOpen, snap>>
    /\ UNCHANGED <<termVars, readerVars, partialVars, envVars, logVars, scanCall, viewVars, sysVars>>

\* line 469: thread.join() returns once the reader thread has ended
DropJoin ==
    /\ hpc = "d_join"
    /\ rpc = "done"
    /\ dlog' = Append(dlog, "join")
    /\ hpc' = "d_fields"
    /\ UNCHANGED <<shutdown, masterOpen, snap>>
    /\ UNCHANGED <<termVars, readerVars, partialVars, envVars, logVars, scanCall, viewVars, sysVars>>

\* after drop(): the fields are dropped, pty_master (OwnedFd) closes the fd
DropFields ==
    /\ hpc = "d_fields"
    /\ masterOpen' = FALSE
    /\ closes' = [closes EXCEPT !.master = @ + 1]
    /\ dlog' = Append(dlog, "close_master")
    /\ hpc' = "gone"
    /\ UNCHANGED <<shutdown, snap>>
    /\ UNCHANGED <<termVars, readerVars, partialVars, envVars, logVars, scanCall, viewVars>>
    /\ UNCHANGED <<wr, cenv, fair, calc, cnt, locks, crt>>

(***************************************************************************)
(* The reader model: the state after a successful create                   *)
(***************************************************************************)
Init ==
    /\ hpc = "run"
    /\ shutdown = FALSE
    /\ masterOpen = TRUE
    /\ readerFdOpen = TRUE
    /\ termLock = "free"
    /\ termFed = <<>>
    /\ rpc = "top"
    /\ pending = <<>>
    /\ fedIdx = 0
    /\ osc7_partial = <<>>
    /\ osc94_partial = <<>>
    /\ evq = <<>>
    /\ batchNo = 0
    /\ pty = <<>>
    /\ child = "running"
    /\ exitCode = -1
    /\ ignoresHup \in BOOLEAN
    /\ ctxNull \in BOOLEAN
    /\ written = <<>>
    /\ nwrites = 0
    /\ batchMarks = {0}
    /\ found = <<>>
    /\ sent = <<>>
    /\ cb = <<>>
    /\ snap = NoSnapshot
    /\ dlog = <<>>
    /\ scanCall = <<>>
    /\ ViewFresh

ReaderNext ==
    \/ ReaderTop
    \/ \E n \in 1..Len(pty) : ReaderRead(n)
    \/ ReaderReadEnd
    \/ \E n \in 1..Len(pty) : ReaderDrainRead(n)
    \/ ReaderDrainInterrupted
    \/ ReaderDrainEnd
    \/ ReaderScanOsc7
    \/ ReaderSendDirectoryChange
    \/ ReaderScanOsc94
    \/ ReaderSendProgressReport
    \/ ReaderLock
    \/ ReaderAdvance
    \/ ReaderUnlock
    \/ ReaderWakeup
    \/ ReaderAfterLoop
    \/ ReaderCloseFd

DropNext == DropSetShutdown \/ DropKill \/ DropJoin \/ DropFields

HostNext == SnapshotLock \/ SnapshotTake \/ DropNext

EnvNext ==
    \/ \E c \in ChildChunks : ChildWrite(c)
    \/ \E code \in ExitCodes : ChildExits(code)
    \/ ReadInterrupted

Next == ReaderNext \/ HostNext \/ EnvNext

Spec == Init /\ [][Next]_vars

(***************************************************************************)
(* The specification of the file descriptors: the host writes and          *)
(* destroys the handle while the reader reads what the child prints.       *)
(***************************************************************************)
FdNext ==
    \/ \E ok \in BOOLEAN : HostWrite(ok)
    \/ DropNext
    \/ ReaderTop
    \/ \E n \in 1..Len(pty) : ReaderRead(n)
    \/ ReaderReadEnd
    \/ \E n \in 1..Len(pty) : ReaderDrainRead(n)
    \/ ReaderDrainInterrupted
    \/ ReaderDrainEnd
    \/ ReaderScanOsc7
    \/ ReaderScanOsc94
    \/ ReaderLock
    \/ ReaderAdvance
    \/ ReaderUnlock
    \/ ReaderWakeup
    \/ ReaderAfterLoop
    \/ ReaderCloseFd
    \/ ChildWrite(<<97>>)
    \/ ChildExits(0)
    \/ ReadInterrupted

FdSpec == Init /\ [][FdNext]_vars

(***************************************************************************)
(* Properties of the reader model                                          *)
(***************************************************************************)
SetMax(S) == CHOOSE x \in S : \A y \in S : x >= y

IsOsc(e) == e.kind = EV_DIRECTORY_CHANGE \/ e.kind = EV_PROGRESS

CountKind(log, k) == Cardinality({i \in 1..Len(log) : log[i].kind = k})

\* the batches whose bytes the parser has been fed completely
FedBatches == Cardinality(batchMarks) - 1

DropOrder == <<"shutdown", "sighup", "join", "close_master">>

\* C1: Drop sets the shutdown flag, sends SIGHUP, joins the reader and closes
\* the master fd, in this order; the master fd is not closed before the
\* reader thread has ended, and no SIGHUP follows the join.
C1_DropOrder ==
    /\ \E k \in 0..Len(DropOrder) : dlog = SubSeq(DropOrder, 1, k)
    /\ Len(dlog) >= 1 => shutdown
    /\ hpc = "d_join" => Len(dlog) = 2
    /\ Len(dlog) >= 3 => rpc = "done" /\ ~readerFdOpen
    /\ ~masterOpen => Len(dlog) = 4 /\ rpc = "done"

C1_Witness == hpc = "gone" /\ dlog = DropOrder /\ ~masterOpen

\* C2: once Drop has set shutdown and sent SIGHUP, the reader thread is never
\* stuck: while the join waits, the reader has ended or can take a step.
C2_DestroyNeverBlocked ==
    hpc = "d_join" => (rpc = "done" \/ ENABLED ReaderNext)

\* C3: the reader holds the emulator mutex exactly while it feeds one batch,
\* feeds the batch in stream order, and every snapshot sees the emulator
\* after a whole number of batches.
C3_SnapshotSeesWholeBatches ==
    /\ snap.len \in batchMarks
    /\ termLock # "reader" => Len(termFed) = SetMax(batchMarks)
    /\ termLock = "reader" =>
           /\ rpc = "advance"
           /\ termFed = SubSeq(termFed, 1, SetMax(batchMarks)) \o SubSeq(pending, 1, fedIdx)
    /\ hpc = "snap" => termLock = "host"

C3_Witness ==
    /\ snap.taken /\ snap.batches >= 1 /\ snap.len >= 2
    /\ termLock = "reader" /\ fedIdx >= 1 /\ fedIdx < Len(pending)

KindsOf(log) == [i \in 1..Len(log) |-> log[i].kind]

OscOfBatches(log, n) == SelectSeq(log, LAMBDA e : IsOsc(e) /\ e.batch <= n)

C5_OneWakeupPerBatch ==
    /\ CountKind(sent, EV_WAKEUP) = IF rpc = "wakeup" THEN FedBatches - 1 ELSE FedBatches
    /\ \A i \in 1..Len(sent) :
           sent[i].kind = EV_WAKEUP => sent[i].batch = CountKind(SubSeq(sent, 1, i), EV_WAKEUP)
    /\ rpc = "wakeup" => termLock # "reader"
    /\ ~ctxNull => CountKind(cb, EV_WAKEUP) = CountKind(sent, EV_WAKEUP)
    /\ ctxNull => cb = <<>>

C5_Witness == rpc = "done" /\ CountKind(sent, EV_WAKEUP) = 2 /\ FedBatches = 2

\* C6: when the child has exited, the host callback receives a ChildExit
\* event with the exit code; at the latest when the reader thread, the only
\* source of events, has ended.
C6_ChildExitDelivered ==
    (child = "exited" /\ rpc = "done" /\ ~ctxNull) =>
        \E i \in 1..Len(cb) : cb[i].kind = EV_CHILD_EXIT /\ cb[i].int = exitCode

\* C10 as claimed: the OSC events of one batch are delivered in the order of
\* their terminators in the batch, whatever their kinds.
C10_LeftToRight ==
    \A i, j \in 1..Len(sent) :
        (i < j /\ IsOsc(sent[i]) /\ IsOsc(sent[j]) /\ sent[i].batch = sent[j].batch)
            => sent[i].at < sent[j].at

\* C10 as amended: within one batch all directory-change events come first,
\* in the order of their terminators, then all progress events, in the order
\* of theirs.
C10_DirThenProgress ==
    \A i, j \in 1..Len(sent) :
        (i < j /\ IsOsc(sent[i]) /\ IsOsc(sent[j]) /\ sent[i].batch = sent[j].batch)
            => /\ sent[i].kind = sent[j].kind => sent[i].at < sent[j].at
               /\ sent[i].kind # sent[j].kind => sent[i].kind = EV_DIRECTORY_CHANGE

C10_Witness ==
    \E i, j \in 1..Len(sent) :
        /\ i < j /\ sent[i].batch = sent[j].batch
        /\ sent[i].kind = EV_DIRECTORY_CHANGE /\ sent[j].kind = EV_PROGRESS
        /\ sent[j].at < sent[i].at

(***************************************************************************)
(* The scanner model: scan_osc7 and scan_osc94 applied to a sequence of    *)
(* batches, as lines 82 and 87 of run_reader apply them, with the          *)
(* continuation buffers carried from batch to batch.  scanCall records the *)
(* last call: its batch, and each scanner's buffer before, events and      *)
(* buffer after.                                                           *)
(***************************************************************************)
\* number of batches scanned in a run
MaxCalls == 2

ScanHeads == {<<>>, OSC7_INTRO, OSC94_INTRO}

\* "", "u", "1;50"
ShortMids == {<<>>, <<117>>, <<49, 59, 53, 48>>}

LongMids == {Run(97, OSC_CAP - 1), Run(97, OSC_CAP), Run(97, OSC_CAP + 1),
             Run(97, OSC_CAP + 2)}

\* ESC ] 7 ; v BEL
Osc7Ok == OSC7_INTRO \o <<118, BEL>>

ScanTails == {<<>>, <<BEL>>, <<ESC, BACKSLASH>>, <<BEL>> \o Osc7Ok}

ScanBatches ==
    ({h \o m \o t : h \in ScanHeads, m \in ShortMids, t \in ScanTails} \ {<<>>})
    \cup {h \o m \o t : h \in {<<>>, OSC7_INTRO}, m \in LongMids,
                        t \in {<<>>, <<BEL>>, <<BEL>> \o Osc7Ok}}
    \cup {OSC94_INTRO \o Run(97, OSC_CAP + 2) \o t : t \in {<<>>, <<BEL>>}}

NoCall == [n |-> 0, data |-> <<>>, pre7 |-> <<>>, out7 |-> <<>>, post7 |-> <<>>,
           pre94 |-> <<>>, out94 |-> <<>>, post94 |-> <<>>]

ScanInit ==
    /\ hpc = "run"
    /\ shutdown = FALSE
    /\ masterOpen = TRUE
    /\ readerFdOpen = TRUE
    /\ termLock = "free"
    /\ termFed = <<>>
    /\ rpc = "top"
    /\ pending = <<>>
    /\ fedIdx = 0
    /\ osc7_partial = <<>>
    /\ osc94_partial = <<>>
    /\ evq = <<>>
    /\ batchNo = 0
    /\ pty = <<>>
    /\ child = "running"
    /\ exitCode = -1
    /\ ignoresHup = FALSE
    /\ ctxNull = FALSE
    /\ written = <<>>
    /\ nwrites = 0
    /\ batchMarks = {0}
    /\ found = <<>>
    /\ sent = <<>>
    /\ cb = <<>>
    /\ snap = NoSnapshot
    /\ dlog = <<>>
    /\ scanCall = NoCall
    /\ ViewFresh

ScanBatch(b) ==
    /\ scanCall.n < MaxCalls
    /\ LET r7 == scan_osc7(b, osc7_partial)
           r94 == scan_osc94(b, osc94_partial)
       IN  /\ osc7_partial' = r7.partial
           /\ osc94_partial' = r94.partial
           /\ scanCall' = [n |-> scanCall.n + 1, data |-> b,
                           pre7 |-> osc7_partial, out7 |-> r7.results,
                           post7 |-> r7.partial,
                           pre94 |-> osc94_partial, out94 |-> r94.results,
                           post94 |-> r94.partial]
    /\ UNCHANGED <<hostVars, termVars, readerVars, envVars, logVars, viewVars, sysVars>>

ScanNext == \E b \in ScanBatches : ScanBatch(b)

ScanSpec == ScanInit /\ [][ScanNext]_vars

(***************************************************************************)
(* Properties of the scanners                                              *)
(***************************************************************************)
Urls(results) == [i \in 1..Len(results) |-> results[i].url]

Reports(results) ==
    [i \in 1..Len(results) |-> [state |-> results[i].state,
                                progress |-> results[i].progress]]

\* no ESC and no BEL: bytes that neither start nor end an OSC sequence
PlainBytes(x) == \A i \in 1..Len(x) : x[i] # ESC /\ x[i] # BEL

\* batch A of a split OSC 7: the introducer and a prefix of the url
SplitA(d) == StartsWith(d, OSC7_INTRO) /\ PlainBytes(SliceFrom(d, 4))

\* batch B of a split OSC 7: the rest of the url and the terminator
SplitBRest(d) ==
    IF d # <<>> /\ d[Len(d)] = BEL THEN SubSeq(d, 1, Len(d) - 1)
    ELSE SubSeq(d, 1, Len(d) - 2)

SplitB(d) ==
    /\ \/ d # <<>> /\ d[Len(d)] = BEL
       \/ Len(d) >= 2 /\ SubSeq(d, Len(d) - 1, Len(d)) = <<ESC, BACKSLASH>>
    /\ PlainBytes(SplitBRest(d))

SplitUrl(a, b) == SliceFrom(a, 4) \o SplitBRest(b)

IsSplitPair(a, b) ==
    /\ SplitA(a) /\ SplitB(b)
    /\ IsUtf8(SplitUrl(a, b))
    /\ Len(SplitUrl(a, b)) >= 1
    /\ Len(SplitUrl(a, b)) <= OSC_CAP

\* C7: an OSC 7 split over two batches (introducer and a possibly empty
\* prefix of the url in A, the rest and the terminator in B), scanned with
\* one continuation buffer that was empty before A, gives no event for A,
\* exactly one event for B, which carries the whole url, and leaves the
\* buffer empty.
C7_SplitOsc7OneEvent ==
    [][ ( /\ scanCall.n >= 1
          /\ scanCall'.n = scanCall.n + 1
          /\ scanCall.pre7 = <<>>
          /\ IsSplitPair(scanCall.data, scanCall'.data) )
        => ( /\ scanCall.out7 = <<>>
             /\ Urls(scanCall'.out7) = <<SplitUrl(scanCall.data, scanCall'.data)>>
             /\ osc7_partial' = <<>> ) ]_vars

\* the same without the empty prefix: the case the code handles
C7_SplitNonEmptyPrefix ==
    [][ ( /\ scanCall.n >= 1
          /\ scanCall'.n = scanCall.n + 1
          /\ scanCall.pre7 = <<>>
          /\ SliceFrom(scanCall.data, 4) # <<>>
          /\ IsSplitPair(scanCall.data, scanCall'.data) )
        => ( /\ scanCall.out7 = <<>>
             /\ Urls(scanCall'.out7) = <<SplitUrl(scanCall.data, scanCall'.data)>>
             /\ osc7_partial' = <<>> ) ]_vars

\* the first BEL or ESC \ of x, wherever it is (Len(x) when there is none)
RawTermAt(x) ==
    LET ts == {i \in 0..(Len(x) - 1) : IsTermAt(x, i)}
    IN  IF ts = {} THEN Len(x) ELSE SetMin(ts)

\* d is one OSC sequence with the given introducer whose payload is longer
\* than the cap and is terminated inside d
Overlong(d, intro) ==
    /\ StartsWith(d, intro)
    /\ RawTermAt(SliceFrom(d, Len(intro))) < Len(d) - Len(intro)
    /\ RawTermAt(SliceFrom(d, Len(intro))) > OSC_CAP

\* what follows the terminator of that sequence in d
AfterOverlong(d, intro) ==
    LET x == SliceFrom(d, Len(intro))
        e == RawTermAt(x)
    IN  SliceFrom(x, e + (IF At(x, e) = BEL THEN 1 ELSE 2))

\* ESC ] 9 ; 4 ; 1 ; 5 0 BEL
Osc94Ok == OSC94_INTRO \o <<49, 59, 53, 48, BEL>>

\* C8: an OSC 7 or OSC 9;4 payload longer than 4096 bytes gives no event and
\* leaves the scanner in ground state (empty continuation buffer), and a
\* well-formed sequence after it, in the same batch or as the next batch,
\* gives its event with exactly its own payload.
C8_OverlongDroppedAndResumes ==
    [][ /\ ( /\ scanCall'.n = scanCall.n + 1
             /\ scanCall'.pre7 = <<>>
             /\ Overlong(scanCall'.data, OSC7_INTRO)
             /\ AfterOverlong(scanCall'.data, OSC7_INTRO) \in {<<>>, Osc7Ok} )
           => ( /\ Urls(scanCall'.out7) =
                      IF AfterOverlong(scanCall'.data, OSC7_INTRO) = Osc7Ok
                      THEN <<(<<118>>)>> ELSE <<>>
                /\ scanCall'.post7 = <<>> )
        /\ ( /\ scanCall'.n = scanCall.n + 1
             /\ scanCall'.pre94 = <<>>
             /\ Overlong(scanCall'.data, OSC94_INTRO)
             /\ AfterOverlong(scanCall'.data, OSC94_INTRO) = <<>> )
           => ( /\ scanCall'.out94 = <<>>
                /\ scanCall'.post94 = <<>> )
        /\ ( /\ scanCall.n >= 1
             /\ scanCall'.n = scanCall.n + 1
             /\ scanCall.pre7 = <<>>
             /\ Overlong(scanCall.data, OSC7_INTRO)
             /\ AfterOverlong(scanCall.data, OSC7_INTRO) = <<>>
             /\ scanCall'.data = Osc7Ok )
           => Urls(scanCall'.out7) = <<(<<118>>)>>
        /\ ( /\ scanCall.n >= 1
             /\ scanCall'.n = scanCall.n + 1
             /\ scanCall.pre94 = <<>>
             /\ Overlong(scanCall.data, OSC94_INTRO)
             /\ AfterOverlong(scanCall.data, OSC94_INTRO) = <<>>
             /\ scanCall'.data = Osc94Ok )
           => Reports(scanCall'.out94) = <<[state |-> 1, progress |-> 50]>>
      ]_vars

\* C9: after every call of scan_osc7 and scan_osc94 the scanner's
\* continuation buffer holds at most 4096 bytes.
C9_PartialBounded ==
    /\ Len(osc7_partial) <= OSC_CAP
    /\ Len(osc94_partial) <= OSC_CAP

(***************************************************************************)
(* The scanners on one batch of whole sequences.  A batch is put together  *)
(* from segments (plain bytes, other OSC sequences, complete OSC 7 and     *)
(* OSC 9;4 sequences); every segment carries what it means: the url of an  *)
(* OSC 7, the state and progress an OSC 9;4 content stands for.  Both      *)
(* scanners start with an empty continuation buffer, as run_reader         *)
(* creates them (lines 50-51).                                             *)
(***************************************************************************)
\* number of segments of a batch
MaxSegs == 2

\* decimal text of a natural number, and of an integer
RECURSIVE NatText(_)
NatText(n) == IF n < 10 THEN <<48 + n>> ELSE NatText(n \div 10) \o <<48 + (n % 10)>>

IntText(n) == IF n < 0 THEN <<45>> \o NatText(-n) ELSE NatText(n)

SegOther(bytes) ==
    [kind |-> "other", bytes |-> bytes, url |-> <<>>,
     ok |-> FALSE, state |-> 0, progress |-> 0]

SegOsc7(url, terminator) ==
    [kind |-> "osc7", bytes |-> OSC7_INTRO \o url \o terminator, url |-> url,
     ok |-> FALSE, state |-> 0, progress |-> 0]

\* an OSC 9;4 whose content is text and stands for (state, progress)
SegOsc94(text, terminator, state, progress) ==
    [kind |-> "osc94", bytes |-> OSC94_INTRO \o text \o terminator, url |-> <<>>,
     ok |-> state \in 0..4, state |-> state, progress |-> progress]

\* an OSC 9;4 whose content is not <state> or <state>;<progress>
SegOsc94Junk(text) ==
    [kind |-> "osc94", bytes |-> OSC94_INTRO \o text \o <<BEL>>, url |-> <<>>,
     ok |-> FALSE, state |-> 0, progress |-> 0]

BelTerm == <<BEL>>

StTerm == <<ESC, BACKSLASH>>

\* "a", ESC x, ESC ] 0 ; t BEL, ESC ] 7 7 ; x BEL
OtherSegs ==
    {SegOther(<<97>>), SegOther(<<ESC, 120>>),
     SegOther(<<ESC, 93, 48, 59, 116, BEL>>),
     SegOther(<<ESC, 93, 55, 55, 59, 120, BEL>>)}

\* urls: "", "u", "e" with acute accent (two bytes), 4096 bytes
Osc7Segs ==
    {SegOsc7(u, t) : u \in {<<>>, <<117>>, <<195, 169>>}, t \in {BelTerm, StTerm}}
    \cup {SegOsc7(Run(97, OSC_CAP), BelTerm)}

Osc94Segs ==
    {SegOsc94(NatText(st), BelTerm, st, -1) : st \in {0, 4, 5}}
    \cup {SegOsc94(NatText(st) \o <<SEMICOLON>>, BelTerm, st, -1) : st \in {0, 4, 5}}
    \cup {SegOsc94(NatText(st) \o <<SEMICOLON>> \o IntText(pr), BelTerm, st, pr) :
              st \in {0, 4, 5}, pr \in {-1, 50}}
    \cup {SegOsc94(<<50, 59, 55, 53>>, StTerm, 2, 75),
          SegOsc94(<<51>>, StTerm, 3, -1),
          SegOsc94(<<43, 50>>, BelTerm, 2, -1),
          SegOsc94(<<48, 51, 59, 48, 48, 55>>, BelTerm, 3, 7),
          SegOsc94(<<49, 59, 43, 55>>, BelTerm, 1, 7),
          SegOsc94(<<49, 59>> \o IntText(2147483647), BelTerm, 1, 2147483647),
          SegOsc94(<<49, 59, 53, 48, 59, 57>>, BelTerm, 1, 50),
          SegOsc94(NatText(256), BelTerm, 256, -1)}
    \cup {SegOsc94Junk(<<>>), SegOsc94Junk(<<120>>),
          SegOsc94Junk(<<49, 59, 97, 98, 99>>),
          SegOsc94Junk(<<45, 48>>),
          SegOsc94Junk(<<49, 59, 32, 53>>),
          SegOsc94Junk(<<49, 59>> \o NatText(2147483647) \o <<48>>),
          SegOsc94Junk(<<49, 59, 255>>)}

Segments == OtherSegs \cup Osc7Segs \cup Osc94Segs

RECURSIVE SegBytes(_)
SegBytes(segs) == IF segs = <<>> THEN <<>> ELSE Head(segs).bytes \o SegBytes(Tail(segs))

OscBatch(segs) ==
    /\ scanCall.n = 0
    /\ LET b == SegBytes(segs)
           r7 == scan_osc7(b, osc7_partial)
           r94 == scan_osc94(b, osc94_partial)
       IN  /\ osc7_partial' = r7.partial
           /\ osc94_partial' = r94.partial
           /\ scanCall' = [n |-> 1, data |-> b,
                           pre7 |-> osc7_partial, out7 |-> r7.results,
                           post7 |-> r7.partial,
                           pre94 |-> osc94_partial, out94 |-> r94.results,
                           post94 |-> r94.partial, segs |-> segs]
    /\ UNCHANGED <<hostVars, termVars, readerVars, envVars, logVars, viewVars, sysVars>>

\* the segments a batch goes on with after its first two
CoreSegs ==
    {SegOther(<<97>>), SegOsc7(<<117>>, BelTerm), SegOsc7(<<195, 169>>, StTerm),
     SegOsc94(NatText(5), BelTerm, 5, -1), SegOsc94(<<50, 59, 55, 53>>, StTerm, 2, 75),
     SegOsc94Junk(<<49, 59, 97, 98, 99>>)}

SegLists(k) ==
    IF k <= 2 THEN [1..k -> Segments]
    ELSE {a \o c : a \in [1..2 -> Segments], c \in [1..(k - 2) -> CoreSegs]}

OscNext == \E k \in 1..MaxSegs : \E segs \in SegLists(k) : OscBatch(segs)

OscSpec == ScanInit /\ [][OscNext]_vars

OscCalled == scanCall.n = 1 /\ "segs" \in DOMAIN scanCall

\* the urls of the OSC 7 segments, in order
SegUrls(segs) ==
    LET s7 == SelectSeq(segs, LAMBDA g : g.kind = "osc7")
    IN  [i \in 1..Len(s7) |-> s7[i].url]

\* the reports the OSC 9;4 segments stand for, in order
SegReports(segs) ==
    LET s94 == SelectSeq(segs, LAMBDA g : g.kind = "osc94" /\ g.ok)
    IN  [i \in 1..Len(s94) |-> [state |-> s94[i].state, progress |-> s94[i].progress]]

\* C11: from an empty continuation buffer, on a batch of plain bytes, other
\* OSC sequences and complete OSC 7 sequences (url valid UTF-8 of at most
\* 4096 bytes, ended by BEL or by ST), scan_osc7 returns exactly the urls of
\* the OSC 7 sequences in their order, whichever terminator ends them, and
\* leaves the buffer empty.
C11_Osc7WholeSequences ==
    OscCalled => /\ scanCall.pre7 = <<>>
                 /\ Urls(scanCall.out7) = SegUrls(scanCall.segs)
                 /\ scanCall.post7 = <<>>

C11_Witness ==
    /\ OscCalled
    /\ scanCall.segs = <<SegOsc7(<<195, 169>>, StTerm), SegOsc7(<<195, 169>>, BelTerm)>>
    /\ Urls(scanCall.out7) = <<(<<195, 169>>), (<<195, 169>>)>>

\* C12: every complete OSC 9;4 sequence of a batch gives a report iff its
\* state field is an integer in 0..4; the report carries that state and the
\* progress given, or -1 when the progress field is missing or empty; a state
\* out of range or a content that does not parse gives nothing and the
\* sequences after it still give theirs.
C12_Osc94Content ==
    OscCalled => /\ Reports(scanCall.out94) = SegReports(scanCall.segs)
                 /\ scanCall.post94 = <<>>

C12_Witness ==
    /\ OscCalled
    /\ scanCall.segs = <<SegOsc94(NatText(5), BelTerm, 5, -1),
                         SegOsc94(<<51>>, StTerm, 3, -1)>>
    /\ Reports(scanCall.out94) = <<[state |-> 3, progress |-> -1]>>

(***************************************************************************)
(* The view model: the emulator as the snapshot, colour, selection, scroll *)
(* and search operations see it.  The reader is idle; what it fed to the   *)
(* parser arrives as the steps TermPut, TermNewline and TermSetColor, the  *)
(* emulator's reaction to printed glyphs, CR LF and OSC 11.                *)
(***************************************************************************)
\* the number of operations of a behaviour
MaxOps == 5

\* Config::default().scrolling_history, scaled down
MaxHist == 2

Min(a, b) == IF a < b THEN a ELSE b

Max(a, b) == IF a > b THEN a ELSE b

\* the sizes the host resizes to
Sizes == {[cols |-> 2, rows |-> 2], [cols |-> 3, rows |-> 2], [cols |-> 2, rows |-> 1]}

DefaultColors(c, flags) ==
    [c |-> c, fg |-> ColorNamed("Foreground"), bg |-> ColorNamed("Background"),
     flags |-> flags]

\* what the program prints: a letter, a space on red (SGR 41), a
\* reverse-video space whose foreground is the default background, a dim
\* reverse-video letter (SGR 2;7) and a double-width character
Glyphs ==
    { <<DefaultColors(97, {})>>,
      <<[c |-> 32, fg |-> ColorNamed("Foreground"), bg |-> ColorIndexed(1), flags |-> {}]>>,
      <<[c |-> 32, fg |-> ColorNamed("Background"), bg |-> ColorIndexed(1),
         flags |-> {"INVERSE"}]>>,
      <<[c |-> 98, fg |-> ColorIndexed(2), bg |-> ColorNamed("Background"),
         flags |-> {"DIM", "INVERSE"}]>>,
      <<DefaultColors(20013, {"WIDE_CHAR"}), DefaultColors(32, {"WIDE_CHAR_SPACER"})>> }

\* term.grid()[Line(l)], for l in -history .. screen_lines - 1
LineAt(t, l) == t.lines[t.hist + l + 1]

CellAt(t, point) == LineAt(t, point.line)[point.col + 1]

\* a half of a double-width character that lost its other half is blanked
FixWide(row) ==
    [i \in 1..Len(row) |->
        IF /\ "WIDE_CHAR" \in row[i].flags
           /\ (i = Len(row) \/ "WIDE_CHAR_SPACER" \notin row[i + 1].flags)
        THEN BlankCell
        ELSE IF /\ "WIDE_CHAR_SPACER" \in row[i].flags
                /\ (i = 1 \/ "WIDE_CHAR" \notin row[i - 1].flags)
        THEN BlankCell
        ELSE row[i]]

Logged(op, ret) ==
    [vlog EXCEPT !.n = @ + 1, !.op = op, !.ret = ret, !.q = "", !.was = FALSE, !.off = 0,
                 !.rep = FALSE, !.row = 0, !.chain = 0, !.odd = FALSE,
                 !.same = FALSE, !.fresh = FALSE]

\* the same for search_set, search_advance and search_clear
LoggedSearch(op, ret, query) ==
    [Logged(op, ret) EXCEPT !.q = query, !.was = search.current_match.some,
                            !.off = term.offset,
                            !.rep = op = "search_set" /\ vlog.op = op /\ vlog.q = query]

\* the parser prints glyph g at the cursor; the line is marked damaged
TermPut(g) ==
    /\ vlog.n < MaxOps
    /\ ~term.wrap
    /\ term.cursor.col + Len(g) <= term.cols
    /\ LET l == term.cursor.line
           c == term.cursor.col
           old == LineAt(term, l)
           new == FixWide([i \in 1..term.cols |->
                              IF i - 1 >= c /\ i - 1 < c + Len(g) THEN g[i - c] ELSE old[i]])
           atEnd == c + Len(g) = term.cols
       IN  term' = [term EXCEPT !.lines[term.hist + l + 1] = new,
                                !.cursor.col = IF atEnd THEN term.cols - 1 ELSE c + Len(g),
                                !.wrap = atEnd,
                                !.dmg.lines = @ \cup {l}]
    /\ vlog' = Logged("put", FALSE)
    /\ UNCHANGED <<palette, search, pgrid, shot>>
    /\ UNCHANGED <<hostVars, termVars, readerVars, partialVars, envVars, logVars, scanCall, sysVars>>

\* Selection::rotate when the whole screen scrolls up by one line
RotateSelection(sel, top) ==
    IF ~sel.some THEN sel
    ELSE IF sel.end.line - 1 < top THEN NoSelection
    ELSE IF sel.start.line - 1 < top
    THEN [sel EXCEPT !.start = [line |-> top, col |-> 0], !.end.line = @ - 1]
    ELSE [sel EXCEPT !.start.line = @ - 1, !.end.line = @ - 1]

\* Grid::scroll_up of the whole screen by one line: the top line moves into
\* the history, which drops its oldest line when it is full
ScrollUp(t) ==
    LET full == t.hist = MaxHist
        hist == IF full THEN t.hist ELSE t.hist + 1
    IN  [t EXCEPT !.lines = (IF full THEN Tail(t.lines) ELSE t.lines)
                            \o <<BlankLine(t.cols)>>,
                  !.hist = hist,
                  !.offset = IF t.offset # 0 THEN Min(t.offset + 1, MaxHist) ELSE 0,
                  !.sel = RotateSelection(t.sel, -hist),
                  !.dmg.full = TRUE]

\* the parser handles CR LF
TermNewline ==
    /\ vlog.n < MaxOps
    /\ LET t == [term EXCEPT !.cursor.col = 0, !.wrap = FALSE]
       IN  term' = IF term.cursor.line < term.rows - 1
                   THEN [t EXCEPT !.cursor.line = @ + 1]
                   ELSE ScrollUp(t)
    /\ vlog' = Logged("newline", FALSE)
    /\ UNCHANGED <<palette, search, pgrid, shot>>
    /\ UNCHANGED <<hostVars, termVars, readerVars, partialVars, envVars, logVars, scanCall, sysVars>>

\* the colour a program sets the default background to (OSC 11)
Osc11Rgb == <<0, 43, 54>>

\* Term::set_color: a changed entry damages the whole screen
TermSetColor(index, rgb) ==
    /\ vlog.n < MaxOps
    /\ term' = [term EXCEPT
                   !.colors = [i \in DOMAIN term.colors \cup {index} |->
                                  IF i = index THEN rgb ELSE term.colors[i]],
                   !.dmg.full = @ \/ index \notin DOMAIN term.colors
                                  \/ term.colors[index] # rgb]
    /\ vlog' = Logged("set_color", FALSE)
    /\ UNCHANGED <<palette, search, pgrid, shot>>
    /\ UNCHANGED <<hostVars, termVars, readerVars, partialVars, envVars, logVars, scanCall, sysVars>>

\* Term::scroll_display(Scroll::Delta(delta)): the offset stays within the
\* history; a change of the offset damages the whole screen
ScrollDisplay(t, delta) ==
    LET offset == Min(Max(t.offset + delta, 0), t.hist)
    IN  [t EXCEPT !.offset = offset, !.dmg.full = @ \/ offset # t.offset]

PadLine(row, cols) ==
    FixWide([i \in 1..cols |-> IF i <= Len(row) THEN row[i] ELSE BlankCell])

\* Term::resize and Term::resize_no_reflow on lines that are not wrapped:
\* nothing happens when the size is the same; otherwise a shrinking screen
\* pushes its top lines into the history as far as the cursor needs it and
\* drops the rest at the bottom, a growing screen pulls lines back from the
\* history and then adds blank lines at the bottom, every line is cut or
\* padded to the new width, the selection is dropped and the whole screen
\* is damaged
ResizeTerm(t, cols, rows) ==
    IF cols = t.cols /\ rows = t.rows THEN t
    ELSE LET shrink == Max(t.rows - rows, 0)
             grow == Max(rows - t.rows, 0)
             pushed == Min(shrink, Max(t.cursor.line + 1 - rows, 0))
             pulled == Min(t.hist, grow)
             kept == SubSeq(t.lines, 1, Len(t.lines) - (shrink - pushed))
             grown == kept \o [i \in 1..(grow - pulled) |-> BlankLine(t.cols)]
             over == Max(t.hist + pushed - pulled - MaxHist, 0)
             hist == t.hist + pushed - pulled - over
             lines == SubSeq(grown, over + 1, Len(grown))
         IN  [t EXCEPT !.rows = rows, !.cols = cols, !.hist = hist,
                       !.lines = [i \in 1..Len(lines) |-> PadLine(lines[i], cols)],
                       !.cursor = [line |-> t.cursor.line - pushed + pulled,
                                   col |-> Min(t.cursor.col, cols - 1)],
                       !.wrap = FALSE,
                       !.offset = Min(Max(t.offset - grow, 0), hist),
                       !.sel = NoSelection,
                       !.dmg = [full |-> TRUE, lines |-> {}]]

(***************************************************************************)
(* take_snapshot_incremental (grid_snapshot.rs) and the host operations    *)
(* (handle.rs)                                                             *)
(***************************************************************************)
\* Point::grid_clamp(term, Boundary::Grid)
GridClamp(t, point) ==
    IF point.line < -t.hist THEN [line |-> -t.hist, col |-> 0]
    ELSE IF point.line > t.rows - 1 THEN [line |-> t.rows - 1, col |-> t.cols - 1]
    ELSE [line |-> point.line, col |-> Min(point.col, t.cols - 1)]

\* Selection::is_empty of a Simple selection, start before end
SimpleIsEmpty(a, aside, b, bside) ==
    \/ a = b /\ aside = bside
    \/ aside = "Right" /\ bside = "Left" /\ a.line = b.line /\ a.col + 1 = b.col

\* Selection::range_simple
RangeSimple(a, aside, b, bside, columns) ==
    IF SimpleIsEmpty(a, aside, b, bside) THEN NoRange
    ELSE LET e == IF bside = "Left" /\ a # b
                  THEN IF b.col = 0 THEN [line |-> b.line - 1, col |-> columns - 1]
                       ELSE [b EXCEPT !.col = @ - 1]
                  ELSE b
             st == IF aside = "Right" /\ a # b
                   THEN IF a.col + 1 = columns THEN [line |-> a.line + 1, col |-> 0]
                        ELSE [a EXCEPT !.col = @ + 1]
                   ELSE a
         IN  SomeRange(st, e)

\* term.selection.as_ref().and_then(|s| s.to_range(term))
SelectionToRange(t) ==
    IF ~t.sel.some THEN NoRange
    ELSE LET swap == ~PointLeq(t.sel.start, t.sel.end)
             a0 == IF swap THEN t.sel.end ELSE t.sel.start
             b0 == IF swap THEN t.sel.start ELSE t.sel.end
             aside == IF swap THEN t.sel.eside ELSE t.sel.sside
             bside == IF swap THEN t.sel.sside ELSE t.sel.eside
             a == GridClamp(t, a0)
             b == GridClamp(t, b0)
         IN  IF b0.line < -t.hist THEN NoRange
             ELSE IF t.sel.ty = "Lines"
             THEN SomeRange([line |-> a.line, col |-> 0], [line |-> b.line, col |-> t.cols - 1])
             ELSE RangeSimple(a, aside, b, bside, t.cols)

RECURSIVE SumLen(_)
SumLen(rows) == IF rows = <<>> THEN 0 ELSE Len(Head(rows)) + SumLen(Tail(rows))

RECURSIVE Flatten(_)
Flatten(rows) == IF rows = <<>> THEN <<>> ELSE Head(rows) \o Flatten(Tail(rows))

\* lines 339-341 and 352-356: the row of the viewport rebuilt from the grid
RebuildRow(t, pal, search_match, row_idx) ==
    LET line == row_idx - t.offset
    IN  process_row(LineAt(t, line), row_idx, t.cols, line, t.colors, pal,
                    SelectionToRange(t), search_match)

\* lines 335-344 and 362-366: the cells of a full rebuild (damage = None)
FullCells(t, pal, search_match) ==
    Flatten([r \in 1..t.rows |-> RebuildRow(t, pal, search_match, r - 1)])

\* lines 345-360, without line 355: the length of the row that is replaced
\* stays in total_cells: a faulty variant of RebuildDamaged
RECURSIVE RebuildDamaged_KeepsOldLength(_, _, _, _, _)
RebuildDamaged_KeepsOldLength(t, pal, search_match, grid, damaged) ==
    IF damaged = <<>> THEN grid
    ELSE LET row_idx == Head(damaged)
             new_row == RebuildRow(t, pal, search_match, row_idx)
         IN  IF row_idx >= t.rows
             THEN RebuildDamaged_KeepsOldLength(t, pal, search_match, grid, Tail(damaged))
             ELSE RebuildDamaged_KeepsOldLength(t, pal, search_match,
                      [grid EXCEPT !.total_cells = @ + Len(new_row),
                                   !.row_cells[row_idx + 1] = new_row],
                      Tail(damaged))

\* lines 345-360: the damaged rows are rebuilt one after the other
RECURSIVE RebuildDamaged(_, _, _, _, _)
RebuildDamaged(t, pal, search_match, grid, damaged) ==
    IF damaged = <<>> THEN grid
    ELSE LET row_idx == Head(damaged)
             new_row == RebuildRow(t, pal, search_match, row_idx)
         IN  IF row_idx >= t.rows
             THEN RebuildDamaged(t, pal, search_match, grid, Tail(damaged))
             ELSE RebuildDamaged(t, pal, search_match,
                      [grid EXCEPT !.total_cells = @ - Len(grid.row_cells[row_idx + 1])
                                                     + Len(new_row),
                                   !.row_cells[row_idx + 1] = new_row],
                      Tail(damaged))

NoDamageList == [some |-> FALSE, rows |-> <<>>]

SomeDamage(rows) == [some |-> TRUE, rows |-> rows]

\* lines 312-322, the bottom-left cell taken at line rows - 1, whatever the
\* display offset: a faulty variant of PaddingBg
PaddingBg_LiveBottom(t, pal) ==
    LET last_row_cell == LineAt(t, t.rows - 1)[1]
    IN  IF "INVERSE" \in last_row_cell.flags
        THEN resolve_color(last_row_cell.fg, t.colors, FALSE, pal)
        ELSE resolve_color(last_row_cell.bg, t.colors, FALSE, pal)

\* lines 312-322
PaddingBg(t, pal) ==
    LET last_line == (t.rows - 1) - t.offset
        last_row_cell == LineAt(t, last_line)[1]
    IN  IF "INVERSE" \in last_row_cell.flags
        THEN resolve_color(last_row_cell.fg, t.colors, FALSE, pal)
        ELSE resolve_color(last_row_cell.bg, t.colors, FALSE, pal)

\* lines 328-333, not recording the new size: a faulty variant of ResizeCache
ResizeCache_KeepsSize(grid, rows, cols) ==
    [grid EXCEPT !.row_cells = [r \in 1..rows |->
                                   IF r <= Len(grid.row_cells) THEN grid.row_cells[r]
                                   ELSE <<>>]]

\* lines 328-333: the cache gets rows rows, new ones empty, and the new size
ResizeCache(grid, rows, cols) ==
    [grid EXCEPT !.row_cells = [r \in 1..rows |->
                                   IF r <= Len(grid.row_cells) THEN grid.row_cells[r]
                                   ELSE <<>>],
                 !.grid_rows = rows, !.grid_cols = cols]

\* the result is the new PersistentGrid and the ClaideGridSnapshot
take_snapshot_incremental(t, pal, search_match, grid, damaged_rows) ==
    LET rows == t.rows
        cols == t.cols
        display_offset == t.offset
        spacer == "WIDE_CHAR_SPACER" \in CellAt(t, t.cursor).flags
        cursor_point == IF spacer THEN [t.cursor EXCEPT !.col = @ - 1] ELSE t.cursor
        dimensions_changed == grid.grid_rows # rows \/ grid.grid_cols # cols
        full_rebuild == ~damaged_rows.some \/ dimensions_changed
        grid1 == IF dimensions_changed THEN ResizeCache(grid, rows, cols) ELSE grid
        all == [r \in 1..rows |-> RebuildRow(t, pal, search_match, r - 1)]
        grid2 == IF full_rebuild
                 THEN [grid1 EXCEPT !.row_cells = all, !.total_cells = SumLen(all)]
                 ELSE RebuildDamaged(t, pal, search_match, grid1, damaged_rows.rows)
        cells == Flatten(grid2.row_cells)
    IN  [grid |-> grid2,
         snapshot |-> [taken |-> TRUE, cells |-> cells, cell_count |-> Len(cells),
                       rows |-> rows, cols |-> cols,
                       cursor |-> [row |-> Max(cursor_point.line + display_offset, 0),
                                   col |-> cursor_point.col],
                       padding_bg |-> PaddingBg(t, pal),
                       full |-> full_rebuild, reset |-> dimensions_changed]]

RECURSIVE SortedSeq(_)
SortedSeq(S) ==
    IF S = {} THEN <<>>
    ELSE LET least == CHOOSE x \in S : \A y \in S : x <= y
         IN  <<least>> \o SortedSeq(S \ {least})

\* the rows of the viewport whose contents changed since the last snapshot,
\* and the row of the cursor, which the emulator always reports
DamagedRows(t) == {l + t.offset : l \in t.dmg.lines \cup {t.cursor.line}}

\* the damage lists a snapshot can be given: none (a full rebuild), which it
\* must be when the emulator reports the whole screen damaged, or a list
\* that holds every damaged row, possibly with an index twice and with
\* indices past the last row
DamageInputs(t) ==
    {NoDamageList}
    \cup (IF t.dmg.full THEN {}
          ELSE LET need == SortedSeq(DamagedRows(t))
               IN  {SomeDamage(need), SomeDamage(<<t.rows>> \o need \o <<Head(need)>>)})

\* what a snapshot reads besides the cells of the grid: the dimensions, the
\* display offset, the palette, the selection and the search match
ViewSeen(t, pal, search_match) ==
    [rows |-> t.rows, cols |-> t.cols, offset |-> t.offset, palette |-> pal,
     selection |-> t.sel, search_match |-> search_match]

\* the damage list holds an index twice and an index past the last row
OddDamage(t, damaged_rows) ==
    /\ damaged_rows.some
    /\ \E i \in DOMAIN damaged_rows.rows : damaged_rows.rows[i] >= t.rows
    /\ \E i, j \in DOMAIN damaged_rows.rows :
          i < j /\ damaged_rows.rows[i] = damaged_rows.rows[j]

\* snapshot(): the emulator, the palette and the search state are locked,
\* the snapshot is built in the PersistentGrid and the damage is reset
Snapshot(damaged_rows) ==
    /\ vlog.n < MaxOps
    /\ damaged_rows \in DamageInputs(term)
    /\ LET r == take_snapshot_incremental(term, palette, search.current_match, pgrid,
                                          damaged_rows)
       IN  /\ pgrid' = r.grid
           /\ shot' = r.snapshot
           /\ vlog' = [Logged("snapshot", FALSE) EXCEPT
                          !.odd = OddDamage(term, damaged_rows),
                          !.base = [view |-> ViewSeen(term, palette,
                                                      search.current_match),
                                    exact |-> r.snapshot.cells =
                                        FullCells(term, palette, search.current_match)],
                          !.same = vlog.base.view = ViewSeen(term, palette,
                                                             search.current_match),
                          !.fresh = vlog.base.exact,
                          !.resets = @ + (IF r.snapshot.reset THEN 1 ELSE 0),
                          !.since = vlog.pend, !.pend = 0,
                          !.prev = [rows |-> shot.rows, cols |-> shot.cols]]
    /\ term' = [term EXCEPT !.dmg = [full |-> FALSE, lines |-> {}]]
    /\ UNCHANGED <<palette, search>>
    /\ UNCHANGED <<hostVars, termVars, readerVars, partialVars, envVars, logVars, scanCall, sysVars>>

\* ClaideColorPalette: 16 * 3 bytes and the bytes of fg and bg
CPalette(ansi, fg, bg) ==
    [ansi |-> ansi, fg_r |-> fg[1], fg_g |-> fg[2], fg_b |-> fg[3],
     bg_r |-> bg[1], bg_g |-> bg[2], bg_b |-> bg[3]]

\* the palettes the host installs: the default colours and a light theme
CPalettes ==
    { CPalette(Flatten(DEFAULT_ANSI), DEFAULT_FG, DEFAULT_BG),
      CPalette([i \in 1..48 |-> (i * 5) % 256], <<101, 123, 131>>, <<253, 246, 227>>) }

\* set_colors, leaving the palette as it is: a faulty variant of SetColors
SetColors_Noop(c_palette) ==
    /\ vlog.n < MaxOps
    /\ palette' = palette
    /\ vlog' = Logged("set_colors", FALSE)
    /\ UNCHANGED <<term, search, pgrid, shot>>
    /\ UNCHANGED <<hostVars, termVars, readerVars, partialVars, envVars, logVars, scanCall, sysVars>>

\* set_colors
SetColors(c_palette) ==
    /\ vlog.n < MaxOps
    /\ palette' = [ansi |-> [i \in 1..16 |-> <<c_palette.ansi[(i - 1) * 3 + 1],
                                               c_palette.ansi[(i - 1) * 3 + 2],
                                               c_palette.ansi[(i - 1) * 3 + 3]>>],
                   fg |-> <<c_palette.fg_r, c_palette.fg_g, c_palette.fg_b>>,
                   bg |-> <<c_palette.bg_r, c_palette.bg_g, c_palette.bg_b>>]
    /\ vlog' = Logged("set_colors", FALSE)
    /\ UNCHANGED <<term, search, pgrid, shot>>
    /\ UNCHANGED <<hostVars, termVars, readerVars, partialVars, envVars, logVars, scanCall, sysVars>>

\* term.resize(dims) or term.resize_no_reflow(dims) under the emulator lock
ResizeTo(cols, rows) ==
    /\ vlog.n < MaxOps
    /\ term' = ResizeTerm(term, cols, rows)
    /\ LET changed == IF cols # term.cols \/ rows # term.rows THEN 1 ELSE 0
       IN  vlog' = [Logged("resize", FALSE) EXCEPT !.resizes = @ + changed,
                                                    !.pend = @ + changed]
    /\ UNCHANGED <<palette, search, pgrid, shot>>
    /\ UNCHANGED <<hostVars, termVars, readerVars, partialVars, envVars, logVars, scanCall, sysVars>>

\* resize_grid
ResizeGrid(cols, rows) == ResizeTo(cols, rows)

\* resize_grid_no_reflow
ResizeGridNoReflow(cols, rows) == ResizeTo(cols, rows)

\* resize: resize_grid, then notify_pty_size, which changes nothing here
Resize(cols, rows) == ResizeGrid(cols, rows)

\* selection_start
SelectionStart(row, col, side, ty) ==
    /\ vlog.n < MaxOps
    /\ term' = [term EXCEPT !.sel = [some |-> TRUE, ty |-> ty,
                                     start |-> [line |-> row, col |-> col],
                                     end |-> [line |-> row, col |-> col],
                                     sside |-> side, eside |-> side]]
    /\ vlog' = [Logged("selection_start", FALSE) EXCEPT !.row = row, !.chain = 1]
    /\ UNCHANGED <<palette, search, pgrid, shot>>
    /\ UNCHANGED <<hostVars, termVars, readerVars, partialVars, envVars, logVars, scanCall, sysVars>>

\* selection_update
SelectionUpdate(row, col, side) ==
    /\ vlog.n < MaxOps
    /\ term' = IF term.sel.some
               THEN [term EXCEPT !.sel.end = [line |-> row, col |-> col], !.sel.eside = side]
               ELSE term
    /\ vlog' = [Logged("selection_update", FALSE) EXCEPT !.row = row]
    /\ UNCHANGED <<palette, search, pgrid, shot>>
    /\ UNCHANGED <<hostVars, termVars, readerVars, partialVars, envVars, logVars, scanCall, sysVars>>

\* selection_clear that leaves a selection of whole lines in place: a
\* faulty variant
SelectionClear_KeepsLines ==
    /\ vlog.n < MaxOps
    /\ term' = IF term.sel.some /\ term.sel.ty = "Lines" THEN term
               ELSE [term EXCEPT !.sel = NoSelection]
    /\ vlog' = [Logged("selection_clear", FALSE) EXCEPT
                   !.chain = IF vlog.chain = 1 THEN 2 ELSE 0]
    /\ UNCHANGED <<palette, search, pgrid, shot>>
    /\ UNCHANGED <<hostVars, termVars, readerVars, partialVars, envVars, logVars, scanCall, sysVars>>

\* selection_clear
SelectionClear ==
    /\ vlog.n < MaxOps
    /\ term' = [term EXCEPT !.sel = NoSelection]
    /\ vlog' = [Logged("selection_clear", FALSE) EXCEPT
                   !.chain = IF vlog.chain = 1 THEN 2 ELSE 0]
    /\ UNCHANGED <<palette, search, pgrid, shot>>
    /\ UNCHANGED <<hostVars, termVars, readerVars, partialVars, envVars, logVars, scanCall, sysVars>>

\* selection_text: Term::selection_to_string is None when there is no
\* selection or its range is empty; ret records whether it is Some
SelectionText ==
    /\ vlog.n < MaxOps
    /\ vlog' = [Logged("selection_text", SelectionToRange(term).some) EXCEPT
                   !.chain = IF vlog.chain = 2 THEN 3 ELSE 0]
    /\ UNCHANGED <<term, palette, search, pgrid, shot>>
    /\ UNCHANGED <<hostVars, termVars, readerVars, partialVars, envVars, logVars, scanCall, sysVars>>

\* scroll
Scroll(delta) ==
    /\ vlog.n < MaxOps
    /\ term' = ScrollDisplay(term, delta)
    /\ vlog' = Logged("scroll", FALSE)
    /\ UNCHANGED <<palette, search, pgrid, shot>>
    /\ UNCHANGED <<hostVars, termVars, readerVars, partialVars, envVars, logVars, scanCall, sysVars>>

(***************************************************************************)
(* Search (handle.rs 363-453).  A query is a pattern of one character; the *)
(* pattern "(" does not compile.                                           *)
(***************************************************************************)
Queries == {"a", " ", "("}

\* RegexSearch::new(query) is Ok
Compiles(query) == query # "("

\* the codepoint a compiled query matches
QueryChar(query) == IF query = "a" THEN 97 ELSE 32

PointLess(a, b) == PointLeq(a, b) /\ a # b

\* the cells the query matches, each a match of its own
MatchPoints(t, query) ==
    {p \in [line : (-t.hist)..(t.rows - 1), col : 0..(t.cols - 1)] :
        /\ CellAt(t, p).c = QueryChar(query)
        /\ "WIDE_CHAR_SPACER" \notin CellAt(t, p).flags}

Least(P) == CHOOSE p \in P : \A q \in P : PointLeq(p, q)

Greatest(P) == CHOOSE p \in P : \A q \in P : PointLeq(q, p)

\* Term::search_next(regex, origin, direction, Side::Left, None): the first
\* match that starts at or after the origin (Right) or at or before it
\* (Left), wrapping around the grid
SearchNext(t, query, origin, direction) ==
    LET all == MatchPoints(t, query)
        ahead == IF direction = "Right" THEN {p \in all : PointLeq(origin, p)}
                 ELSE {p \in all : PointLeq(p, origin)}
        from == IF ahead # {} THEN ahead ELSE all
        at == IF direction = "Right" THEN Least(from) ELSE Greatest(from)
    IN  IF all = {} THEN NoRange ELSE SomeRange(at, at)

\* scroll_to_match, always centring the match: a faulty variant
scroll_to_match_AlwaysCentre(t, m) ==
    LET target_offset == Max(-m.start.line + t.rows \div 2, 0)
        delta == target_offset - t.offset
    IN  IF delta # 0 THEN ScrollDisplay(t, delta) ELSE t

scroll_to_match(t, m) ==
    LET display_offset == t.offset
        screen_lines == t.rows
        match_line == m.start.line
        top_visible == -display_offset
        bottom_visible == top_visible + screen_lines - 1
        target_offset == Max(-match_line + screen_lines \div 2, 0)
        delta == target_offset - display_offset
    IN  IF match_line >= top_visible /\ match_line <= bottom_visible THEN t
        ELSE IF delta # 0 THEN ScrollDisplay(t, delta)
        ELSE t

\* search_set of a query that does not compile, keeping the search state:
\* a faulty variant of SearchSetInvalid
SearchSetInvalid_KeepsState(query) ==
    /\ vlog.n < MaxOps
    /\ ~Compiles(query)
    /\ search' = search
    /\ vlog' = LoggedSearch("search_set", FALSE, query)
    /\ UNCHANGED <<term, palette, pgrid, shot>>
    /\ UNCHANGED <<hostVars, termVars, readerVars, partialVars, envVars, logVars, scanCall, sysVars>>

\* search_set, lines 368-374: the query does not compile
SearchSetInvalid(query) ==
    /\ vlog.n < MaxOps
    /\ ~Compiles(query)
    /\ search' = [regex |-> [some |-> FALSE, q |-> ""], current_match |-> NoRange]
    /\ vlog' = LoggedSearch("search_set", FALSE, query)
    /\ UNCHANGED <<term, palette, pgrid, shot>>
    /\ UNCHANGED <<hostVars, termVars, readerVars, partialVars, envVars, logVars, scanCall, sysVars>>

\* search_set that searches on from the current match when there is one:
\* a faulty variant of SearchSetValid
SearchSetValid_FromMatch(query) ==
    /\ vlog.n < MaxOps
    /\ Compiles(query)
    /\ LET origin == IF search.current_match.some
                     THEN [search.current_match.end EXCEPT !.col = @ + 1]
                     ELSE term.cursor
           hit == SearchNext(term, query, origin, "Right")
       IN  /\ term' = IF hit.some THEN scroll_to_match(term, hit) ELSE term
           /\ search' = [regex |-> [some |-> TRUE, q |-> query], current_match |-> hit]
           /\ vlog' = LoggedSearch("search_set", hit.some, query)
    /\ UNCHANGED <<palette, pgrid, shot>>
    /\ UNCHANGED <<hostVars, termVars, readerVars, partialVars, envVars, logVars, scanCall, sysVars>>

\* search_set, lines 376-388: the query compiles
SearchSetValid(query) ==
    /\ vlog.n < MaxOps
    /\ Compiles(query)
    /\ LET origin == term.cursor
           hit == SearchNext(term, query, origin, "Right")
       IN  /\ term' = IF hit.some THEN scroll_to_match(term, hit) ELSE term
           /\ search' = [regex |-> [some |-> TRUE, q |-> query], current_match |-> hit]
           /\ vlog' = LoggedSearch("search_set", hit.some, query)
    /\ UNCHANGED <<palette, pgrid, shot>>
    /\ UNCHANGED <<hostVars, termVars, readerVars, partialVars, envVars, logVars, scanCall, sysVars>>

\* search_set
SearchSet(query) == SearchSetInvalid(query) \/ SearchSetValid(query)

\* search_advance that searches again from the cursor when there is no
\* current match: a faulty variant of SearchAdvance
SearchAdvance_FromCursor(forward) ==
    /\ vlog.n < MaxOps
    /\ IF ~search.regex.some
       THEN /\ vlog' = LoggedSearch("search_advance", FALSE, "")
            /\ UNCHANGED <<term, search>>
       ELSE LET current == IF search.current_match.some THEN search.current_match
                           ELSE SomeRange(term.cursor, term.cursor)
                origin == IF forward THEN current.end ELSE current.start
                direction == IF forward THEN "Right" ELSE "Left"
                hit == SearchNext(term, search.regex.q, origin, direction)
            IN  /\ term' = IF hit.some THEN scroll_to_match(term, hit) ELSE term
                /\ search' = [search EXCEPT !.current_match = hit]
                /\ vlog' = LoggedSearch("search_advance", hit.some, "")
    /\ UNCHANGED <<palette, pgrid, shot>>
    /\ UNCHANGED <<hostVars, termVars, readerVars, partialVars, envVars, logVars, scanCall, sysVars>>

\* search_advance
SearchAdvance(forward) ==
    /\ vlog.n < MaxOps
    /\ IF ~search.regex.some \/ ~search.current_match.some
       THEN /\ vlog' = LoggedSearch("search_advance", FALSE, "")
            /\ UNCHANGED <<term, search>>
       ELSE LET current == search.current_match
                origin == IF forward THEN current.end ELSE current.start
                direction == IF forward THEN "Right" ELSE "Left"
                hit == SearchNext(term, search.regex.q, origin, direction)
            IN  /\ term' = IF hit.some THEN scroll_to_match(term, hit) ELSE term
                /\ search' = [search EXCEPT !.current_match = hit]
                /\ vlog' = LoggedSearch("search_advance", hit.some, "")
    /\ UNCHANGED <<palette, pgrid, shot>>
    /\ UNCHANGED <<hostVars, termVars, readerVars, partialVars, envVars, logVars, scanCall, sysVars>>

\* search_clear
SearchClear ==
    /\ vlog.n < MaxOps
    /\ search' = [regex |-> [some |-> FALSE, q |-> ""], current_match |-> NoRange]
    /\ vlog' = LoggedSearch("search_clear", FALSE, "")
    /\ UNCHANGED <<term, palette, pgrid, shot>>
    /\ UNCHANGED <<hostVars, termVars, readerVars, partialVars, envVars, logVars, scanCall, sysVars>>

(***************************************************************************)
(* The specification of the snapshot engine: the program prints, the host  *)
(* scrolls, resizes, selects, sets colours, searches and takes snapshots.  *)
(***************************************************************************)
ViewTermNext ==
    \/ \E g \in Glyphs : TermPut(g)
    \/ TermNewline
    \/ TermSetColor(NamedIndex("Background"), Osc11Rgb)

ViewHostNext ==
    \/ \E c_palette \in CPalettes : SetColors(c_palette)
    \/ \E size \in Sizes : ResizeGrid(size.cols, size.rows)
    \/ \E size \in Sizes : ResizeGridNoReflow(size.cols, size.rows)
    \/ \E size \in Sizes : Resize(size.cols, size.rows)
    \/ \E delta \in {-1, 1} : Scroll(delta)
    \/ \E row \in {0, 1} : SelectionStart(row, 0, "Left", "Lines")
    \/ SelectionStart(0, 0, "Left", "Simple")
    \/ SelectionUpdate(0, 1, "Right")
    \/ SelectionClear
    \/ SearchSetValid(" ")
    \/ SearchClear
    \/ \E damaged_rows \in DamageInputs(term) : Snapshot(damaged_rows)

ViewNext == ViewTermNext \/ ViewHostNext

ViewSpec == ScanInit /\ [][ViewNext]_vars

(***************************************************************************)
(* The specification of search: the program prints, the host scrolls,      *)
(* resizes and searches.                                                   *)
(***************************************************************************)
\* what the program prints here: a letter and a double-width character
SearchGlyphs == {g \in Glyphs : g[1].flags \subseteq {"WIDE_CHAR"}}

SearchNextStep ==
    \/ \E g \in SearchGlyphs : TermPut(g)
    \/ TermNewline
    \/ \E delta \in {-1, 1} : Scroll(delta)
    \/ \E size \in Sizes : ResizeGrid(size.cols, size.rows)
    \/ \E query \in Queries : SearchSet(query)
    \/ \E forward \in BOOLEAN : SearchAdvance(forward)
    \/ SearchClear

SearchSpec == ScanInit /\ [][SearchNextStep]_vars

(***************************************************************************)
(* The specification of selection: the program prints, the host scrolls    *)
(* and selects.                                                            *)
(***************************************************************************)
\* the rows the host passes: the line above the screen and the two lines
\* of the screen
SelRows == {-1, 0, 1}

SelCols == {0, 1}

Sides == {"Left", "Right"}

SelectionTypes == {"Simple", "Lines"}

SelNext ==
    \/ TermPut(<<DefaultColors(97, {})>>)
    \/ TermNewline
    \/ \E delta \in {-1, 1} : Scroll(delta)
    \/ \E row \in SelRows, col \in SelCols, side \in Sides, ty \in SelectionTypes :
          SelectionStart(row, col, side, ty)
    \/ \E row \in SelRows, col \in SelCols, side \in Sides : SelectionUpdate(row, col, side)
    \/ SelectionClear
    \/ SelectionText

SelSpec == ScanInit /\ [][SelNext]_vars

(***************************************************************************)
(* Properties of the snapshot engine                                       *)
(***************************************************************************)
\* C13: in every snapshot, after any writes, resizes and scrolls, the
\* cursor lies inside the grid: cursor.row < rows and cursor.col < cols.
C13_CursorInsideGrid ==
    shot.taken => shot.cursor.row < shot.rows /\ shot.cursor.col < shot.cols

\* what does hold: the column is inside the grid, and the row is the
\* cursor's line moved down by the display offset, so it is inside the
\* grid when the viewport is not scrolled back
C13_CursorRowShifted ==
    vlog.op = "snapshot" =>
        /\ shot.cursor.col < shot.cols
        /\ shot.cursor.row = term.cursor.line + term.offset
        /\ term.offset = 0 => shot.cursor.row < shot.rows

\* the cell at column 0 of the bottom visible line
BottomLeftCell == CellAt(term, [line |-> term.rows - 1 - term.offset, col |-> 0])

\* C14: in every snapshot, full or incremental, padding_bg is the resolved
\* background of the cell at column 0 of the bottom visible line at the
\* current display offset, the cell's fg colour standing in for its bg
\* when the cell has INVERSE: it is the bg process_row gives that cell.
C14_PaddingIsBottomLeftBg ==
    vlog.op = "snapshot" =>
        shot.padding_bg = CellData(BottomLeftCell, 0, 0, [line |-> 0, col |-> 0],
                                   term.colors, palette, NoRange, NoRange).bg

\* a snapshot of a viewport scrolled back whose bottom-left cell is red
C14_Witness ==
    /\ vlog.op = "snapshot"
    /\ term.offset > 0
    /\ BottomLeftCell.bg = ColorIndexed(1)
    /\ shot.padding_bg = palette.ansi[2]
    /\ LineAt(term, term.rows - 1)[1].bg = ColorNamed("Background")

\* an incremental snapshot whose bottom-left cell is in reverse video
C14_WitnessInverse ==
    /\ vlog.op = "snapshot"
    /\ ~shot.full
    /\ "INVERSE" \in BottomLeftCell.flags
    /\ shot.padding_bg = resolve_color(BottomLeftCell.fg, term.colors, FALSE, palette)
    /\ shot.padding_bg # resolve_color(BottomLeftCell.bg, term.colors, FALSE, palette)

\* the grid point shown at (row, col) of the viewport
ViewPoint(row, col) == [line |-> row - term.offset, col |-> col]

Selected(point) ==
    SelectionToRange(term).some /\ RangeContains(SelectionToRange(term), point)

InMatch(point) ==
    /\ search.current_match.some
    /\ PointLeq(search.current_match.start, point)
    /\ PointLeq(point, search.current_match.end)

\* the cell is one the claim calls omitted
Trivial(cell, point) ==
    /\ cell.c \in {0, 32, 127}
    /\ (IF "INVERSE" \in cell.flags THEN cell.fg ELSE cell.bg) = ColorNamed("Background")
    /\ ~Selected(point)
    /\ ~InMatch(point)
    /\ "WIDE_CHAR" \notin cell.flags /\ "WIDE_CHAR_SPACER" \notin cell.flags

Positions(cells) == {<<cells[i].row, cells[i].col>> : i \in 1..Len(cells)}

\* C15, first sentence: process_row omits a cell if and only if it is a
\* blank (0x00, 0x20, 0x7F) whose effective background is the named default
\* background and that is not selected, not in the search match and not
\* (the spacer of) a wide character.  Every row of a full rebuild is the
\* result of process_row on the current state.
C15_SkipsExactlyTrivial ==
    (vlog.op = "snapshot" /\ shot.full) =>
        Positions(shot.cells) =
            {rc \in (0..(term.rows - 1)) \X (0..(term.cols - 1)) :
                ~Trivial(CellAt(term, ViewPoint(rc[1], rc[2])), ViewPoint(rc[1], rc[2]))}

\* a full rebuild that omits a reverse-video blank whose foreground is the
\* default background and emits a selected blank and a wide-char spacer
C15_Witness ==
    /\ vlog.op = "snapshot" /\ shot.full
    /\ \E rc \in (0..(term.rows - 1)) \X (0..(term.cols - 1)) :
          /\ "INVERSE" \in CellAt(term, ViewPoint(rc[1], rc[2])).flags
          /\ rc \notin Positions(shot.cells)
    /\ \E rc \in Positions(shot.cells) :
          /\ CellAt(term, ViewPoint(rc[1], rc[2])) = BlankCell
          /\ Selected(ViewPoint(rc[1], rc[2]))
    /\ \E rc \in Positions(shot.cells) :
          "WIDE_CHAR_SPACER" \in CellAt(term, ViewPoint(rc[1], rc[2])).flags

\* the viewport holds only spaces on the default background
BlankScreen ==
    \A rc \in (0..(term.rows - 1)) \X (0..(term.cols - 1)) :
        LET cell == CellAt(term, ViewPoint(rc[1], rc[2]))
        IN  cell.c = 32 /\ cell.bg = ColorNamed("Background") /\ cell.flags = {}

\* C15, second sentence: a screen that holds only spaces on the default
\* background, with no selection and no search match, yields a snapshot
\* with cell_count = 0.
C15_BlankScreenNoCells ==
    (/\ vlog.op = "snapshot"
     /\ BlankScreen
     /\ ~SelectionToRange(term).some
     /\ ~search.current_match.some) => shot.cell_count = 0

\* every row of the cache is what process_row makes of the current grid
AllRowsRebuilt ==
    pgrid.row_cells = [r \in 1..term.rows |->
                          RebuildRow(term, palette, search.current_match, r - 1)]

C16_WitnessTwice ==
    /\ vlog.op = "snapshot"
    /\ vlog.resizes = 2
    /\ vlog.resets = 3
    /\ shot.rows = InitSize.rows /\ shot.cols = InitSize.cols

\* the colours process_row gives, with the current palette, to the cell
\* shown at (row, col)
ColoursNow(row, col) ==
    LET d == CellData(CellAt(term, ViewPoint(row, col)), row, col, ViewPoint(row, col),
                      term.colors, palette, NoRange, NoRange)
    IN  <<d.fg, d.bg>>

\* C17: the palette set_colors installs is effective in the very next
\* snapshot: every cell the snapshot emits is resolved through it, also the
\* cells of rows that are not reported as damaged and come from the row
\* cache.
C17_PaletteEffectiveNextSnapshot ==
    vlog.op = "snapshot" =>
        \A i \in 1..Len(shot.cells) :
            <<shot.cells[i].fg, shot.cells[i].bg>>
                = ColoursNow(shot.cells[i].row, shot.cells[i].col)

\* what does hold of set_colors: it changes the palette and nothing of the
\* emulator, the search state, the row cache or the last snapshot
C17_SetColorsOnlyPalette ==
    [][vlog'.op = "set_colors" => UNCHANGED <<term, search, pgrid, shot>>]_vars

(***************************************************************************)
(* Properties of search                                                    *)
(***************************************************************************)
\* the step is a call of the operation op
Calls(op) == vlog'.n = vlog.n + 1 /\ vlog'.op = op

\* C18: search_set with a query that does not compile clears the compiled
\* regex and the current match, which is the state search_clear leaves,
\* changes nothing of the emulator or the viewport, and returns false.
C18_InvalidQueryClears ==
    [][/\ (Calls("search_set") /\ ~Compiles(vlog'.q)) =>
            /\ ~search'.regex.some /\ ~search'.current_match.some
            /\ search' = NoSearch
            /\ term' = term
            /\ ~vlog'.ret
       /\ Calls("search_clear") => search' = NoSearch /\ term' = term]_vars

\* an invalid query given while a match is current
C18_Witness ==
    /\ vlog.op = "search_set" /\ ~Compiles(vlog.q)
    /\ vlog.was
    /\ search = NoSearch
    /\ ~vlog.ret

\* C19: search_advance returns false and changes neither the search state
\* nor the viewport when there is no compiled regex or no current match;
\* and a search_set or search_advance that finds no match leaves the
\* current match empty, so that every later search_advance returns false
\* until the next search_set.
C19_AdvanceNeedsMatch ==
    [][/\ (Calls("search_advance")
           /\ (~search.regex.some \/ ~search.current_match.some)) =>
            ~vlog'.ret /\ search' = search /\ term' = term
       /\ ((Calls("search_advance") \/ Calls("search_set")) /\ ~vlog'.ret) =>
            ~search'.current_match.some
       /\ (~search.current_match.some /\ search'.current_match.some) =>
            Calls("search_set")]_vars

\* a search_advance that returns false for want of a current match although
\* the regex is compiled and the grid now holds a match
C19_Witness ==
    /\ vlog.op = "search_advance" /\ ~vlog.ret
    /\ ~vlog.was
    /\ search.regex.some /\ ~search.current_match.some
    /\ MatchPoints(term, search.regex.q) # {}

\* a search_advance that loses the current match: the grid holds none now
C19_WitnessLost ==
    /\ vlog.op = "search_advance" /\ ~vlog.ret
    /\ vlog.was
    /\ search.regex.some /\ ~search.current_match.some

\* line is inside the viewport at display offset offset
Visible(line, offset, screen_lines) ==
    line >= -offset /\ line <= -offset + screen_lines - 1

\* C20: when search_set or search_advance returns true, the start line of
\* the current match is inside the viewport on return; the display offset
\* is unchanged if the line was visible already, and otherwise it is
\* max(0, -match_line + screen_lines / 2), clamped to the history.
C20_MatchScrolledIntoView ==
    [][((Calls("search_set") \/ Calls("search_advance")) /\ vlog'.ret) =>
          LET match_line == search'.current_match.start.line
          IN  /\ search'.current_match.some
              /\ Visible(match_line, term'.offset, term'.rows)
              /\ Visible(match_line, term.offset, term.rows) =>
                    term'.offset = term.offset
              /\ ~Visible(match_line, term.offset, term.rows) =>
                    term'.offset = Min(Max(0, -match_line + term.rows \div 2), term.hist)
              /\ term'.rows = term.rows /\ term'.hist = term.hist]_vars

\* a match in the history that the search scrolled to, the requested offset
\* clamped to the history
C20_Witness ==
    /\ vlog.op \in {"search_set", "search_advance"} /\ vlog.ret
    /\ search.current_match.start.line < 0
    /\ ~Visible(search.current_match.start.line, vlog.off, term.rows)
    /\ Visible(search.current_match.start.line, term.offset, term.rows)
    /\ term.offset = term.hist
    /\ -search.current_match.start.line + term.rows \div 2 > term.hist

\* a match below a viewport that was scrolled back
C20_WitnessBelow ==
    /\ vlog.op \in {"search_set", "search_advance"} /\ vlog.ret
    /\ search.current_match.start.line > -vlog.off + term.rows - 1
    /\ term.offset < vlog.off

\* a match that was visible in a viewport scrolled back: the offset stays
C20_WitnessVisible ==
    /\ vlog.op \in {"search_set", "search_advance"} /\ vlog.ret
    /\ vlog.off > 0 /\ term.offset = vlog.off

(***************************************************************************)
(* Algebraic properties of search and selection                            *)
(***************************************************************************)
\* C21: search_set is idempotent when nothing is fed in between: a
\* search_set(q) right after a search_set(q) returns the same value and
\* leaves the same current match and the same display offset as the first.
C21_SearchSetIdempotent ==
    [][(vlog'.op = "search_set" /\ vlog'.rep)
        => /\ vlog'.ret = vlog.ret
           /\ search' = search
           /\ term'.offset = term.offset]_vars

\* the second of two search_set("a") found the match in the history that
\* the first one scrolled to
C21_Witness ==
    /\ vlog.op = "search_set" /\ vlog.rep /\ vlog.ret
    /\ vlog.q = "a"
    /\ search.current_match.start.line < 0
    /\ term.offset > 0

\* the same for a query that does not compile
C21_WitnessInvalid ==
    vlog.op = "search_set" /\ vlog.rep /\ ~vlog.ret /\ ~Compiles(vlog.q)

\* C22: for any point, side and kind and any grid contents,
\* selection_start followed by selection_clear leaves no selection, so that
\* selection_text returns none; and selection_update without a selection
\* changes nothing, selection_text still returns none.
C22_ClearAndUpdateWithoutSelection ==
    /\ [](vlog.chain = 2 => ~term.sel.some)
    /\ [](vlog.chain = 3 => ~vlog.ret /\ ~term.sel.some)
    /\ [][(vlog'.op = "selection_update" /\ vlog'.n = vlog.n + 1 /\ ~term.sel.some)
            => term' = term]_vars
    /\ [](vlog.op = "selection_text" /\ ~term.sel.some => ~vlog.ret)

\* selection_text after selection_start and selection_clear on a grid with
\* text in it
C22_Witness ==
    /\ vlog.op = "selection_text" /\ vlog.chain = 3
    /\ \E l \in 1..Len(term.lines) : term.lines[l][1].c = 97

\* selection_update without a selection
C22_WitnessUpdate ==
    vlog.op = "selection_update" /\ ~term.sel.some /\ vlog.row = 1

\* selection_text that does return a text
C22_WitnessText ==
    vlog.op = "selection_text" /\ vlog.ret

\* C23: selection_start and selection_update take row as viewport-relative:
\* with display offset d the selection point is placed on grid line
\* row - d, so that row 0 is the top visible line at any scroll position.
C23_RowIsViewportRelative ==
    /\ vlog.op = "selection_start" => term.sel.start.line = vlog.row - term.offset
    /\ (vlog.op = "selection_update" /\ term.sel.some)
          => term.sel.end.line = vlog.row - term.offset

\* what does hold: the point is placed on grid line row, whatever the
\* display offset
C23_RowIsGridLine ==
    /\ vlog.op = "selection_start"
          => term.sel.some /\ term.sel.start.line = vlog.row /\ term.sel.end.line = vlog.row
    /\ (vlog.op = "selection_update" /\ term.sel.some) => term.sel.end.line = vlog.row

\* a selection started while the viewport was scrolled back
C23_WitnessScrolled ==
    vlog.op = "selection_start" /\ term.offset > 0 /\ vlog.row = 0

(***************************************************************************)
(* Properties of the file descriptors                                      *)
(***************************************************************************)
\* C24: every file descriptor is closed exactly once: the reader's
\* duplicate of the master only when the reader thread ends, not by the
\* File in run_reader; the handle's master fd only when the handle is
\* destroyed; and write never closes the master fd, however many writes
\* there are and whether they succeed or fail.
C24_FdsClosedOnce ==
    /\ closes.reader <= 1 /\ closes.master <= 1
    /\ closes.reader = 1 <=> rpc = "done"
    /\ closes.master = 1 <=> hpc = "gone"
    /\ readerFdOpen <=> closes.reader = 0
    /\ masterOpen <=> closes.master = 0
    /\ hpc = "gone" => closes = [master |-> 1, reader |-> 1]

\* a handle destroyed after two writes, the last of which failed, while
\* the reader had fed a batch
C24_Witness ==
    /\ hpc = "gone" /\ wr.n >= 2 /\ ~wr.ok
    /\ closes = [master |-> 1, reader |-> 1]
    /\ termFed # <<>>

\* a write that succeeded while the reader thread had already ended
C24_WitnessAfterReader ==
    hpc = "run" /\ wr.n >= 1 /\ wr.ok /\ rpc = "done" /\ masterOpen

(***************************************************************************)
(* create: the environment of the child (handle.rs:120-168).  An           *)
(* environment is a function from the names that are set to their values.  *)
(***************************************************************************)
\* the length of the list of pairs given to create
MaxEnv == 2

EnvKeys == {"HOME", "TERM"}

EnvValues == {"a", "b"}

\* the environments the host process may have
HostEnvs == UNION {[D -> EnvValues] : D \in SUBSET EnvKeys}

\* the lists of pairs the host may supply
EnvLists == UNION {[1..n -> EnvKeys \X EnvValues] : n \in 0..MaxEnv}

\* libc::setenv(k, v, 1)
Setenv(environ, k, v) ==
    [x \in DOMAIN environ \cup {k} |-> IF x = k THEN v ELSE environ[x]]

\* the environment that consists of exactly the pairs of a list, a later
\* pair of a name replacing an earlier one
RECURSIVE EnvOf(_)
EnvOf(pairs) ==
    IF pairs = <<>> THEN <<>>
    ELSE LET rest == EnvOf(SubSeq(pairs, 1, Len(pairs) - 1))
             last == pairs[Len(pairs)]
         IN  Setenv(rest, last[1], last[2])

\* a fork after which the child starts from an empty environment, the
\* variant under which the child would have the supplied pairs only
Fork_EmptyEnvironment(host, env) ==
    /\ cenv.stage = "none"
    /\ cenv' = [stage |-> "child", host |-> host, env |-> env, child |-> <<>>, i |-> 0]
    /\ UNCHANGED <<closes, wr, fair, calc, cnt, locks, crt>>
    /\ UNCHANGED <<hostVars, termVars, readerVars, partialVars, envVars, logVars, scanCall, viewVars>>

\* lines 120, 125: create is called with the list env in a process whose
\* environment is host; libc::fork gives the child a copy of it
Fork(host, env) ==
    /\ cenv.stage = "none"
    /\ cenv' = [stage |-> "child", host |-> host, env |-> env, child |-> host, i |-> 0]
    /\ UNCHANGED <<closes, wr, fair, calc, cnt, locks, crt>>
    /\ UNCHANGED <<hostVars, termVars, readerVars, partialVars, envVars, logVars, scanCall, viewVars>>

\* lines 149-153: the child sets one pair of the list
ChildSetenv ==
    /\ cenv.stage = "child"
    /\ cenv.i < Len(cenv.env)
    /\ LET pair == cenv.env[cenv.i + 1]
       IN  cenv' = [cenv EXCEPT !.child = Setenv(@, pair[1], pair[2]), !.i = @ + 1]
    /\ UNCHANGED <<closes, wr, fair, calc, cnt, locks, crt>>
    /\ UNCHANGED <<hostVars, termVars, readerVars, partialVars, envVars, logVars, scanCall, viewVars>>

\* line 165: libc::execvp starts the executable in the child's environment
ChildExecvp ==
    /\ cenv.stage = "child"
    /\ cenv.i = Len(cenv.env)
    /\ cenv' = [cenv EXCEPT !.stage = "exec"]
    /\ UNCHANGED <<closes, wr, fair, calc, cnt, locks, crt>>
    /\ UNCHANGED <<hostVars, termVars, readerVars, partialVars, envVars, logVars, scanCall, viewVars>>

ChildEnvNext ==
    \/ \E host \in HostEnvs, env \in EnvLists : Fork(host, env)
    \/ ChildSetenv
    \/ ChildExecvp

ChildEnvSpec == ScanInit /\ [][ChildEnvNext]_vars

\* C25: the environment of the exec'd child consists of exactly the
\* key/value pairs supplied to create: no variable of the host's
\* environment that was not supplied is present in the child.
C25_ExactlySuppliedPairs ==
    cenv.stage = "exec" => cenv.child = EnvOf(cenv.env)

\* what does hold: the child has the host's environment with the supplied
\* pairs set on top of it
C25_SuppliedOverInherited ==
    cenv.stage = "exec" =>
        /\ DOMAIN cenv.child = DOMAIN cenv.host \cup DOMAIN EnvOf(cenv.env)
        /\ \A k \in DOMAIN cenv.child :
              cenv.child[k] = IF k \in DOMAIN EnvOf(cenv.env) THEN EnvOf(cenv.env)[k]
                              ELSE cenv.host[k]

\* a child that has a variable of the host that create was not given
C25_WitnessInherited ==
    /\ cenv.stage = "exec"
    /\ "HOME" \in DOMAIN cenv.child /\ "HOME" \notin DOMAIN EnvOf(cenv.env)
    /\ "TERM" \in DOMAIN EnvOf(cenv.env)

(***************************************************************************)
(* The fair mutex of the emulator (pty_reader.rs:91-96, handle.rs:282-287).*)
(* FairMutex serves lock() calls in the order they were made.  The reader  *)
(* always finds a batch to read.                                           *)
(***************************************************************************)
\* the batches of the reader and the snapshots of the host in a behaviour
MaxRounds == 4

\* FairMutex::lock, the call: the thread joins the queue
FairRequest(f, thread) == [f EXCEPT !.queue = Append(@, thread)]

\* FairMutex::lock returns: the thread is the first of the queue and the
\* mutex is free
FairCanAcquire(f, thread) ==
    f.owner = "free" /\ f.queue # <<>> /\ Head(f.queue) = thread

FairAcquire(f, thread) == [f EXCEPT !.owner = thread, !.queue = Tail(@)]

\* the guard is dropped
FairRelease(f) == [f EXCEPT !.owner = "free"]

\* the reader asks for the mutex past the queue, as lock_unfair would: a
\* faulty variant
FairReaderLockCall_Unfair ==
    /\ fair.rpc = "read"
    /\ fair.batches < MaxRounds
    /\ fair' = [fair EXCEPT !.queue = <<"reader">> \o @, !.rpc = "lock"]
    /\ UNCHANGED <<closes, wr, cenv, calc, cnt, locks, crt>>
    /\ UNCHANGED <<hostVars, termVars, readerVars, partialVars, envVars, logVars, scanCall, viewVars>>

\* pty_reader.rs:60-93: the reader has read and scanned a batch and calls
\* term.lock()
FairReaderLockCall ==
    /\ fair.rpc = "read"
    /\ fair.batches < MaxRounds
    /\ fair' = [FairRequest(fair, "reader") EXCEPT !.rpc = "lock"]
    /\ UNCHANGED <<closes, wr, cenv, calc, cnt, locks, crt>>
    /\ UNCHANGED <<hostVars, termVars, readerVars, partialVars, envVars, logVars, scanCall, viewVars>>

\* line 93: term.lock() returns; the reader begins to feed the batch
FairReaderLocked ==
    /\ fair.rpc = "lock"
    /\ FairCanAcquire(fair, "reader")
    /\ fair' = [FairAcquire(fair, "reader") EXCEPT
                   !.rpc = "advance",
                   !.waited = IF fair.hpc = "lock" THEN @ + 1 ELSE @]
    /\ UNCHANGED <<closes, wr, cenv, calc, cnt, locks, crt>>
    /\ UNCHANGED <<hostVars, termVars, readerVars, partialVars, envVars, logVars, scanCall, viewVars>>

\* lines 94-98: the batch is fed, the guard is dropped at the end of the
\* block, and the reader goes back to the top of the loop
FairReaderUnlock ==
    /\ fair.rpc = "advance"
    /\ fair' = [FairRelease(fair) EXCEPT !.rpc = "read", !.batches = @ + 1]
    /\ UNCHANGED <<closes, wr, cenv, calc, cnt, locks, crt>>
    /\ UNCHANGED <<hostVars, termVars, readerVars, partialVars, envVars, logVars, scanCall, viewVars>>

\* handle.rs:283: snapshot calls self.term.lock()
FairHostLockCall ==
    /\ fair.hpc = "idle"
    /\ fair.snaps < MaxRounds
    /\ fair' = [FairRequest(fair, "host") EXCEPT !.hpc = "lock", !.waited = 0]
    /\ UNCHANGED <<closes, wr, cenv, calc, cnt, locks, crt>>
    /\ UNCHANGED <<hostVars, termVars, readerVars, partialVars, envVars, logVars, scanCall, viewVars>>

\* line 283: self.term.lock() returns
FairHostLocked ==
    /\ fair.hpc = "lock"
    /\ FairCanAcquire(fair, "host")
    /\ fair' = [FairAcquire(fair, "host") EXCEPT !.hpc = "snap"]
    /\ UNCHANGED <<closes, wr, cenv, calc, cnt, locks, crt>>
    /\ UNCHANGED <<hostVars, termVars, readerVars, partialVars, envVars, logVars, scanCall, viewVars>>

\* lines 284-287: the snapshot is taken and the guards are dropped
FairHostUnlock ==
    /\ fair.hpc = "snap"
    /\ fair' = [FairRelease(fair) EXCEPT !.hpc = "idle", !.snaps = @ + 1]
    /\ UNCHANGED <<closes, wr, cenv, calc, cnt, locks, crt>>
    /\ UNCHANGED <<hostVars, termVars, readerVars, partialVars, envVars, logVars, scanCall, viewVars>>

FairReaderNext == FairReaderLockCall \/ FairReaderLocked \/ FairReaderUnlock

FairHostNext == FairHostLockCall \/ FairHostLocked \/ FairHostUnlock

FairNext == FairReaderNext \/ FairHostNext

\* a thread that can take a step takes it in the end; the host need not
\* ask for a snapshot
FairSpec ==
    /\ ScanInit
    /\ [][FairNext]_vars
    /\ WF_vars(FairReaderNext)
    /\ WF_vars(FairHostLocked \/ FairHostUnlock)

\* C26: with the fair mutex, a snapshot of the host that has asked for the
\* mutex gets it after at most one further batch of the reader, even when
\* the reader always has a batch ready: the host is never starved.
C26_HostNotStarved ==
    /\ [](fair.waited <= 1)
    /\ (fair.hpc = "lock") ~> (fair.owner = "host")

\* the host asked while the reader was ahead of it in the queue, the reader
\* fed one batch and has asked again, and the host has the mutex
C26_Witness ==
    /\ fair.owner = "host" /\ fair.waited = 1
    /\ fair.queue = <<"reader">>
    /\ fair.batches >= 2

\* the host waits while the reader feeds a batch
C26_WitnessWaiting ==
    fair.hpc = "lock" /\ fair.owner = "reader" /\ fair.queue = <<"host">>

(***************************************************************************)
(* Properties of the emitted cells and of the row cache                    *)
(***************************************************************************)
\* the emitted cell i of the last snapshot shows a cell with INVERSE, and
\* its colours are the swapped ones: fg the resolution of the cell's bg
\* colour, halved per channel when the cell has DIM as well, and bg the
\* resolution of the cell's fg colour, not halved
InverseSwapped(i) ==
    LET d == shot.cells[i]
        cell == CellAt(term, ViewPoint(d.row, d.col))
        swapped_fg == resolve_color(cell.bg, term.colors, TRUE, palette)
        swapped_bg == resolve_color(cell.fg, term.colors, FALSE, palette)
    IN  "INVERSE" \in cell.flags =>
            /\ d.fg = IF "DIM" \in cell.flags THEN HalfRgb(swapped_fg) ELSE swapped_fg
            /\ d.bg = swapped_bg

\* C27: for every emitted cell with INVERSE the snapshot's fg is the
\* resolution of the cell's bg colour and its bg the resolution of the
\* cell's fg colour; with DIM as well each fg channel is the swapped
\* channel divided by 2, and bg is not halved.
C27_InverseSwapsDimHalves ==
    vlog.op = "snapshot" => \A i \in 1..Len(shot.cells) : InverseSwapped(i)

\* what does hold: the same for every snapshot that rebuilt all its rows
C27_InverseSwapsWhenRebuilt ==
    (vlog.op = "snapshot" /\ shot.full) => \A i \in 1..Len(shot.cells) : InverseSwapped(i)

\* a full rebuild that emits a dim reverse-video letter with a halved fg
\* and a reverse-video space on red with a red fg
C27_WitnessRebuilt ==
    /\ vlog.op = "snapshot" /\ shot.full
    /\ \E i \in 1..Len(shot.cells) :
          /\ CellAt(term, ViewPoint(shot.cells[i].row, shot.cells[i].col)).flags
                = {"DIM", "INVERSE"}
          /\ shot.cells[i].fg = HalfRgb(palette.bg)
          /\ shot.cells[i].bg = palette.ansi[3]
    /\ \E i \in 1..Len(shot.cells) :
          /\ CellAt(term, ViewPoint(shot.cells[i].row, shot.cells[i].col)).flags = {"INVERSE"}
          /\ shot.cells[i].fg = palette.ansi[2]
          /\ shot.cells[i].bg = palette.bg

(***************************************************************************)
(* Properties of the byte stream                                           *)
(***************************************************************************)
\* the bytes the reader has read and not fed yet
Unfed == SubSeq(pending, fedIdx + 1, Len(pending))

\* C28: every byte a read on the PTY returned is fed to the VT parser
\* exactly once and in stream order: what the parser has been fed, then
\* what the reader holds, then what is still unread, is the stream the
\* child wrote, and the reader holds nothing when it is between batches or
\* has left the loop.  This covers the bytes accumulated before the drain
\* ends on end of stream, on an error or after an interrupted read, the
\* bytes of OSC 7 and OSC 9;4 sequences, and the bytes read just before
\* shutdown is observed.
C28_EveryByteFedOnce ==
    /\ termFed \o Unfed \o pty = written
    /\ rpc \in {"top", "read", "wakeup", "after_loop", "close_fd", "done"} => pending = <<>>
    /\ rpc # "advance" => fedIdx = 0

\* the reader has ended after shutdown and has fed all that was written,
\* an OSC 7 sequence and an OSC 9;4 sequence among it
C28_Witness ==
    /\ rpc = "done" /\ shutdown
    /\ termFed = written
    /\ written \in {Osc7Chunk \o Osc94Chunk, Osc94Chunk \o Osc7Chunk}

\* shutdown was set after the read that returned the batch being fed
C28_WitnessShutdown ==
    /\ shutdown /\ rpc = "advance" /\ fedIdx >= 1
    /\ child = "exited" /\ pty = <<>>
    /\ termFed \o Unfed = written

\* the child exited during the drain of a batch that took two reads
C28_WitnessDrain ==
    /\ rpc = "scan7" /\ child = "exited" /\ pty = <<>>
    /\ pending = written /\ nwrites = 2 /\ batchNo = 1

(***************************************************************************)
(* The row cache after a snapshot                                          *)
(***************************************************************************)
\* the cells are in increasing row order and, within a row, in increasing
\* column order
RowMajor(cells) ==
    \A i, j \in 1..Len(cells) :
        i < j => \/ cells[i].row < cells[j].row
                 \/ cells[i].row = cells[j].row /\ cells[i].col < cells[j].col

\* C29: after every snapshot, full or incremental, also one whose damage
\* list holds an index twice or an index past the last row, the persistent
\* cache has exactly screen_lines rows, its total_cells is the sum of the
\* lengths of its rows, and the snapshot's cell_count is total_cells, the
\* cells being the rows of the cache one after the other, in increasing row
\* order and in increasing column order within a row.
C29_CacheInvariants ==
    shot.taken =>
        /\ Len(pgrid.row_cells) = shot.rows
        /\ pgrid.grid_rows = shot.rows
        /\ pgrid.total_cells = SumLen(pgrid.row_cells)
        /\ shot.cell_count = pgrid.total_cells
        /\ Len(shot.cells) = shot.cell_count
        /\ shot.cells = Flatten(pgrid.row_cells)
        /\ \A r \in 1..Len(pgrid.row_cells) :
              \A i \in 1..Len(pgrid.row_cells[r]) : pgrid.row_cells[r][i].row = r - 1
        /\ RowMajor(shot.cells)
        /\ (vlog.op = "snapshot" => shot.rows = term.rows)

\* an incremental snapshot whose damage list held an index twice and an
\* index past the last row has replaced a row of the cache by a row of
\* another length, and the cache holds cells in more than one row
C29_Witness ==
    /\ vlog.op = "snapshot" /\ vlog.odd /\ ~shot.full
    /\ shot.cell_count > 0
    /\ \E r1, r2 \in 1..Len(pgrid.row_cells) :
          r1 # r2 /\ pgrid.row_cells[r1] # <<>> /\ pgrid.row_cells[r2] # <<>>

\* a full snapshot after the size of the grid has changed
C29_WitnessFull ==
    /\ vlog.op = "snapshot" /\ shot.full /\ shot.reset /\ vlog.resets > 1
    /\ shot.cell_count > 0

(***************************************************************************)
(* Incremental and full snapshots                                          *)
(***************************************************************************)
\* C30: if the grid dimensions, the display offset, the palette, the
\* selection and the search match are unchanged since the previous snapshot
\* and the damage list holds every row whose grid cells were modified since
\* then, the cells of the incremental snapshot are those a full rebuild
\* (damage = None) would produce on the same emulator state.
C30_IncrementalEqualsFull ==
    (vlog.op = "snapshot" /\ vlog.same /\ ~shot.full) =>
        shot.cells = FullCells(term, palette, search.current_match)

\* C30 where the snapshot before produced the cells of a full rebuild: then
\* the incremental snapshot does too.
C30_AgreesOverExactCache ==
    (vlog.op = "snapshot" /\ vlog.same /\ vlog.fresh /\ ~shot.full) =>
        shot.cells = FullCells(term, palette, search.current_match)

\* C30, the rest of the claim: in an incremental snapshot the rows that are
\* not listed as damaged are taken from the cache unchanged, the listed
\* ones are rebuilt from the grid, and damaged indices >= rows are ignored.
C30_UndamagedRowsFromCache ==
    [][(vlog'.op = "snapshot" /\ vlog'.n = vlog.n + 1 /\ ~shot'.full) =>
          /\ Len(pgrid'.row_cells) = term.rows
          /\ \A r \in 1..term.rows :
                pgrid'.row_cells[r] =
                    IF r - 1 \in DamagedRows(term)
                    THEN RebuildRow(term, palette, search.current_match, r - 1)
                    ELSE pgrid.row_cells[r]]_vars

\* an incremental snapshot, given an index >= rows, that saw the view of
\* the snapshot before it and kept a row of the cache that holds cells
C30_WitnessCached ==
    /\ vlog.op = "snapshot" /\ vlog.same /\ vlog.fresh /\ vlog.odd /\ ~shot.full
    /\ \E r \in 1..term.rows :
          r - 1 # term.cursor.line + term.offset /\ pgrid.row_cells[r] # <<>>

(***************************************************************************)
(* The SELECTED and SEARCH_MATCH bits                                      *)
(***************************************************************************)
\* bit (a power of two) is set in the bit field x
HasBit(x, bit) == (x \div bit) % 2 = 1

\* the emitted cell i carries SELECTED exactly if its grid point is in the
\* current selection range, and SEARCH_MATCH exactly if its point is
\* between the start and the end of the current match
MarkBitsCurrent(i) ==
    LET d == shot.cells[i]
        point == ViewPoint(d.row, d.col)
    IN  /\ HasBit(d.flags, SELECTED) <=> Selected(point)
        /\ HasBit(d.flags, SEARCH_MATCH) <=> InMatch(point)

\* C31: in every snapshot an emitted cell has bit 0x200 set if and only if
\* its grid point lies in the selection range current at that snapshot, and
\* bit 0x400 set if and only if its point lies between the start and the end
\* of the match current at that snapshot.
C31_MarkBitsInEverySnapshot ==
    vlog.op = "snapshot" => \A i \in 1..Len(shot.cells) : MarkBitsCurrent(i)

\* what does hold: the same for every snapshot that rebuilt all its rows
C31_MarkBitsWhenRebuilt ==
    (vlog.op = "snapshot" /\ shot.full) => \A i \in 1..Len(shot.cells) : MarkBitsCurrent(i)

\* C31, last part: map_flags sets neither bit, whatever flags a cell of the
\* grid has
C31_MapFlagsBelowMarkBits ==
    \A l \in 1..Len(term.lines) : \A c \in 1..Len(term.lines[l]) :
        LET out == map_flags(term.lines[l][c].flags)
        IN  ~HasBit(out, SELECTED) /\ ~HasBit(out, SEARCH_MATCH) /\ out < SELECTED

\* a full rebuild that emits a selected cell, a cell of the match and a cell
\* with flags of its own that is neither
C31_WitnessRebuilt ==
    /\ vlog.op = "snapshot" /\ shot.full
    /\ \E i \in 1..Len(shot.cells) : HasBit(shot.cells[i].flags, SELECTED)
    /\ \E i \in 1..Len(shot.cells) : HasBit(shot.cells[i].flags, SEARCH_MATCH)
    /\ \E i \in 1..Len(shot.cells) :
          /\ shot.cells[i].flags > 0
          /\ ~HasBit(shot.cells[i].flags, SELECTED)
          /\ ~HasBit(shot.cells[i].flags, SEARCH_MATCH)

(***************************************************************************)
(* The specification of colour resolution: resolve_color is called on      *)
(* indexed colours, with colour tables that hold entries and that do not.  *)
(***************************************************************************)
\* a light palette, as set_colors stores it
LightPalette ==
    [ansi |-> [i \in 1..16 |-> <<(i * 15) % 256, (i * 15 + 5) % 256, (i * 15 + 10) % 256>>],
     fg |-> <<101, 123, 131>>, bg |-> <<253, 246, 227>>]

Palettes == {DefaultPalette, LightPalette}

\* the colour tables of the terminal: no entry, and entries (set with OSC 4)
\* for an ANSI colour, a colour of the cube and a grey
ColorTables ==
    { <<>>,
      [i \in {3, 100, 240} |-> <<i, 1, 2>>] }

\* resolve_color(&Color::Indexed(index), colors, is_foreground, palette)
ResolveIndexed(index, colors, is_foreground, pal) ==
    /\ calc' = [fn |-> "resolve_color",
                args |-> [index |-> index, colors |-> colors,
                          is_foreground |-> is_foreground, palette |-> pal],
                out |-> resolve_color(ColorIndexed(index), colors, is_foreground, pal)]
    /\ UNCHANGED <<closes, wr, cenv, fair, cnt, locks, crt>>
    /\ UNCHANGED <<hostVars, termVars, readerVars, partialVars, envVars, logVars, scanCall, viewVars>>

ResolveNext ==
    \E index \in 0..255 : \E colors \in ColorTables :
        \E is_foreground \in BOOLEAN : \E pal \in Palettes :
            ResolveIndexed(index, colors, is_foreground, pal)

ResolveSpec == ScanInit /\ [][ResolveNext]_vars

\* one component of the 6x6x6 cube as the claim gives it
CubeValue(k) == IF k = 0 THEN 0 ELSE k * 40 + 55

\* C32: for every indexed colour 0..255 with no entry in the terminal's
\* colour table, resolve_color returns palette.ansi[index] for index < 16,
\* the cube value for 16..231 (r = idx/36, g = (idx/6) mod 6, b = idx mod 6,
\* idx = index - 16) and the grey 8 + (index - 232)*10 for 232..255; every
\* component is within 0..255, so nothing wraps in 8 bits, and the result
\* is a function of the arguments.
C32_IndexedFallback ==
    (calc.fn = "resolve_color" /\ calc.args.index \notin DOMAIN calc.args.colors) =>
        LET index == calc.args.index
            idx == index - 16
            v == 8 + (index - 232) * 10
        IN  /\ calc.out =
                  IF index < 16 THEN calc.args.palette.ansi[index + 1]
                  ELSE IF index < 232
                  THEN <<CubeValue(idx \div 36), CubeValue((idx \div 6) % 6),
                         CubeValue(idx % 6)>>
                  ELSE <<v, v, v>>
            /\ \A i \in 1..3 : calc.out[i] \in 0..255

\* the last colour of the cube and the last grey, the largest values of
\* their ranges, resolved with a table that has entries for other indices
C32_Witness ==
    /\ calc.fn = "resolve_color" /\ calc.args.index = 231
    /\ calc.args.colors # <<>> /\ calc.out = <<255, 255, 255>>

C32_WitnessGrey ==
    /\ calc.fn = "resolve_color" /\ calc.args.index = 255
    /\ calc.out = <<238, 238, 238>>

C32_WitnessAnsi ==
    /\ calc.fn = "resolve_color" /\ calc.args.index = 15
    /\ calc.args.palette = LightPalette /\ calc.out = <<240, 245, 250>>

(***************************************************************************)
(* The end of the reader loop                                              *)
(***************************************************************************)
\* the most batches the reader can start: one per write of the child
MaxBatches == MaxWrites

\* the reader leaves the loop in this step
LoopEnds == rpc \in {"top", "read", "drain", "scan7", "emit7", "emit94", "advance", "wakeup"}
            /\ rpc' = "after_loop"

\* C33: the reader loop ends exactly when the shutdown flag is seen at the
\* top of an iteration or when the blocking read returns 0 bytes or fails
\* with an error other than Interrupted; an interrupted read leads back to
\* the top of the loop and never out of it; and once the shutdown flag is
\* set the reader starts at most one more batch: the flag stays set, the
\* reader does not enter the blocking read any more, and a batch starts
\* only with a read that returns bytes and leaves the blocking read.
C33_LoopEnd ==
    /\ [][LoopEnds => \/ rpc = "top" /\ shutdown
                      \/ rpc = "read" /\ pty = <<>> /\ child = "exited"]_vars
    /\ [][(rpc = "top" /\ rpc' # rpc) =>
             rpc' = IF shutdown THEN "after_loop" ELSE "read"]_vars
    /\ [][(rpc = "read" /\ rpc' # rpc) =>
             \/ rpc' = "top" /\ batchNo' = batchNo /\ pending' = pending /\ pty' = pty
             \/ rpc' = "drain" /\ batchNo' = batchNo + 1 /\ Len(pending') > Len(pending)
             \/ rpc' = "after_loop" /\ pty = <<>> /\ child = "exited"]_vars
    /\ [][batchNo' # batchNo => rpc = "read" /\ rpc' = "drain"]_vars
    /\ [][shutdown => shutdown']_vars
    /\ [][(rpc' = "read" /\ rpc # "read") => (rpc = "top" /\ ~shutdown)]_vars

\* C33, the last part said of whole behaviours: from any moment at which the
\* shutdown flag is set, the number of batches started grows by at most one.
C33_AtMostOneMoreBatch ==
    \A k \in 0..MaxBatches : []((shutdown /\ batchNo = k) => [](batchNo <= k + 1))

\* the shutdown flag is set while the reader is in the blocking read, after
\* a first batch: the read can still return bytes and start one more batch
C33_Witness ==
    /\ shutdown /\ rpc = "read" /\ batchNo = 1 /\ pty # <<>>

\* the loop has ended on a read that returned 0 bytes, without shutdown
C33_WitnessEndOfStream ==
    /\ ~shutdown /\ rpc = "after_loop" /\ batchNo >= 1

\* the loop has ended on the shutdown flag with bytes left to read
C33_WitnessShutdown ==
    /\ shutdown /\ rpc = "after_loop" /\ pty # <<>> /\ child = "running"

(***************************************************************************)
(* The specification of batch sizes: run_reader (pty_reader.rs:54-107)     *)
(* followed by the length of pending only, with reads of up to 64 KiB, so  *)
(* that the batch limit of 1 MiB is reached.                               *)
(***************************************************************************)
\* the reader runs this many batches
MaxRuns == 2

\* what a read into buf returns: half of buf, all but one byte, all of it
ReadSizes == {READ_BUF \div 2, READ_BUF - 1, READ_BUF}

CountUnchanged ==
    /\ UNCHANGED <<closes, wr, cenv, fair, calc, locks, crt>>
    /\ UNCHANGED <<hostVars, termVars, readerVars, partialVars, envVars, logVars, scanCall, viewVars>>

\* Drop stores true to the shutdown flag at any moment
CountShutdown ==
    /\ ~cnt.stop
    /\ cnt' = [cnt EXCEPT !.stop = TRUE]
    /\ CountUnchanged

\* lines 55-57: the check at the top of the loop
CountTop ==
    /\ cnt.pc = "top"
    /\ cnt.batches < MaxRuns \/ cnt.stop
    /\ cnt' = [cnt EXCEPT !.pc = IF cnt.stop THEN "after_loop" ELSE "read"]
    /\ CountUnchanged

\* lines 60-67: the blocking read returns n bytes, which pending takes
CountRead(n) ==
    /\ cnt.pc = "read"
    /\ cnt' = [cnt EXCEPT !.pending = @ + n, !.n = n, !.at = -1, !.pc = "drain"]
    /\ CountUnchanged

\* line 63: Err(Interrupted) => continue
CountReadInterrupted ==
    /\ cnt.pc = "read"
    /\ cnt' = [cnt EXCEPT !.pc = "top"]
    /\ CountUnchanged

\* lines 61, 64: Ok(0) => break, Err(_) => break
CountReadEnd ==
    /\ cnt.pc = "read"
    /\ cnt' = [cnt EXCEPT !.pc = "after_loop"]
    /\ CountUnchanged

\* lines 72-75 with <= for <: a faulty variant of CountDrainRead
CountDrainRead_AtLimit(n) ==
    /\ cnt.pc = "drain"
    /\ cnt.pending <= BATCH_LIMIT
    /\ cnt' = [cnt EXCEPT !.pending = @ + n, !.n = n, !.at = cnt.pending]
    /\ CountUnchanged

\* lines 72-75: pending is under the batch limit, poll_readable says yes
\* and the read returns n bytes
CountDrainRead(n) ==
    /\ cnt.pc = "drain"
    /\ cnt.pending < BATCH_LIMIT
    /\ cnt' = [cnt EXCEPT !.pending = @ + n, !.n = n, !.at = cnt.pending]
    /\ CountUnchanged

\* line 76: Err(Interrupted) => continue, back to the condition of the while
CountDrainInterrupted ==
    /\ cnt.pc = "drain"
    /\ cnt.pending < BATCH_LIMIT
    /\ cnt' = cnt
    /\ CountUnchanged

\* lines 72, 74, 77: the limit is reached, or poll_readable says no, or the
\* read returns Ok(0) or an error: the batch goes to the scanners
CountDrainEnd ==
    /\ cnt.pc = "drain"
    /\ cnt' = [cnt EXCEPT !.pc = "scan"]
    /\ CountUnchanged

\* lines 82-98: scan_osc7, scan_osc94 and parser.advance on pending, then
\* pending.clear() and the wakeup
CountFeed ==
    /\ cnt.pc = "scan"
    /\ cnt' = [cnt EXCEPT !.pending = 0, !.batches = @ + 1, !.pc = "top"]
    /\ CountUnchanged

\* lines 102-107: the flush after the loop feeds pending if it is not empty
CountAfterLoop ==
    /\ cnt.pc = "after_loop"
    /\ cnt' = [cnt EXCEPT !.flushed = cnt.pending, !.pc = "done"]
    /\ CountUnchanged

CountNext ==
    \/ CountShutdown
    \/ CountTop
    \/ \E n \in ReadSizes \cup {1} : CountRead(n)
    \/ CountReadInterrupted
    \/ CountReadEnd
    \/ \E n \in ReadSizes : CountDrainRead(n)
    \/ CountDrainInterrupted
    \/ CountDrainEnd
    \/ CountFeed
    \/ CountAfterLoop

CountSpec == ScanInit /\ [][CountNext]_vars

\* C34: every batch handed to the scanners and the parser is non-empty and
\* shorter than 1 MiB + 64 KiB; the drain starts another read only while
\* pending is under the batch limit, and a read adds at most 65,536 bytes;
\* pending is empty at the start of every iteration of the loop and after
\* the loop, so the flush after the loop feeds nothing.
C34_BatchBounds ==
    /\ cnt.pc = "scan" => cnt.pending >= 1 /\ cnt.pending < BATCH_LIMIT + READ_BUF
    /\ cnt.n <= READ_BUF
    /\ cnt.at < BATCH_LIMIT
    /\ cnt.pc \in {"top", "read", "after_loop", "done"} => cnt.pending = 0
    /\ cnt.flushed = 0

\* a batch of 1 MiB + 64 KiB - 1 bytes, the longest there is, is handed to
\* the scanners: the last read of the drain began one byte under the limit
C34_Witness ==
    /\ cnt.pc = "scan" /\ cnt.pending = BATCH_LIMIT + READ_BUF - 1
    /\ cnt.at = BATCH_LIMIT - 1 /\ cnt.n = READ_BUF

\* a batch of one byte, and the drain ended by the limit exactly reached
C34_WitnessOneByte ==
    cnt.pc = "scan" /\ cnt.pending = 1 /\ cnt.batches = 1

C34_WitnessAtLimit ==
    cnt.pc = "drain" /\ cnt.pending = BATCH_LIMIT

\* the loop left by the shutdown flag after a batch, and the flush has run
C34_WitnessFlush ==
    cnt.pc = "done" /\ cnt.stop /\ cnt.batches >= 1

(***************************************************************************)
(* The specification of the window size: create, notify_pty_size and       *)
(* resize build a winsize from cols, rows and the cell size                *)
(* (handle.rs:107-113, 263-273, 276-279).                                  *)
(***************************************************************************)
U16 == 65536

\* x as u16
AsU16(x) == x % U16

\* the winsize of lines 108-113 and 264-269.  A u16 product that does not
\* fit panics where overflow checks are compiled in (a debug build) and
\* wraps where they are not (a release build)
Winsize(cols, rows, cell_width, cell_height, overflow_checks) ==
    LET xpixel == AsU16(cols) * cell_width
        ypixel == AsU16(rows) * cell_height
    IN  IF overflow_checks /\ (xpixel >= U16 \/ ypixel >= U16)
        THEN [panicked |-> TRUE, ws_row |-> 0, ws_col |-> 0, ws_xpixel |-> 0, ws_ypixel |-> 0]
        ELSE [panicked |-> FALSE, ws_row |-> AsU16(rows), ws_col |-> AsU16(cols),
              ws_xpixel |-> xpixel % U16, ws_ypixel |-> ypixel % U16]

\* the operations that set the window size of the PTY
WinsizeOps == {"create", "notify_pty_size", "resize"}

\* cols and rows (u32) and cell sizes (u16) the host passes
WinCols == {0, 80, 200, 65535, 65536, 65616}

WinRows == {24, 50, 65560}

CellWidths == {0, 8, 400, 32767}

CellHeights == {16, 2000}

\* op(cols, rows, cell_width, cell_height): the ioctl TIOCSWINSZ gets the
\* winsize, unless building it has panicked
SetWinsize(op, cols, rows, cell_width, cell_height, overflow_checks) ==
    /\ calc' = [fn |-> "winsize",
                args |-> [op |-> op, cols |-> cols, rows |-> rows,
                          cell_width |-> cell_width, cell_height |-> cell_height,
                          overflow_checks |-> overflow_checks],
                out |-> Winsize(cols, rows, cell_width, cell_height, overflow_checks)]
    /\ UNCHANGED <<closes, wr, cenv, fair, cnt, locks, crt>>
    /\ UNCHANGED <<hostVars, termVars, readerVars, partialVars, envVars, logVars, scanCall, viewVars>>

WinsizeNext ==
    \E op \in WinsizeOps : \E cols \in WinCols : \E rows \in WinRows :
        \E cell_width \in CellWidths : \E cell_height \in CellHeights :
            \E overflow_checks \in BOOLEAN :
                /\ calc.fn = "none"
                /\ SetWinsize(op, cols, rows, cell_width, cell_height, overflow_checks)

WinsizeSpec == ScanInit /\ [][WinsizeNext]_vars

\* C35: for every cols and rows (u32) and every cell_width and cell_height
\* (u16) passed to create, resize or notify_pty_size, the window size given
\* to the PTY has ws_col = cols, ws_row = rows, ws_xpixel = cols * cell_width
\* and ws_ypixel = rows * cell_height, and building it does not fail.
C35_WinsizeExact ==
    calc.fn = "winsize" =>
        /\ ~calc.out.panicked
        /\ calc.out.ws_col = calc.args.cols
        /\ calc.out.ws_row = calc.args.rows
        /\ calc.out.ws_xpixel = calc.args.cols * calc.args.cell_width
        /\ calc.out.ws_ypixel = calc.args.rows * calc.args.cell_height

\* what does hold: the same where cols, rows and both products fit 16 bits
C35_WinsizeExactInRange ==
    (/\ calc.fn = "winsize"
     /\ calc.args.cols < U16 /\ calc.args.rows < U16
     /\ calc.args.cols * calc.args.cell_width < U16
     /\ calc.args.rows * calc.args.cell_height < U16) =>
        /\ ~calc.out.panicked
        /\ calc.out.ws_col = calc.args.cols
        /\ calc.out.ws_row = calc.args.rows
        /\ calc.out.ws_xpixel = calc.args.cols * calc.args.cell_width
        /\ calc.out.ws_ypixel = calc.args.rows * calc.args.cell_height

\* a window of 200 x 50 cells of 8 x 16 pixels
C35_WitnessInRange ==
    /\ calc.fn = "winsize" /\ calc.args.cols = 200 /\ calc.args.rows = 50
    /\ calc.out.ws_xpixel = 1600 /\ calc.out.ws_ypixel = 800

(***************************************************************************)
(* The specification of the lock order: two threads of the host call the   *)
(* operations of one handle while the reader feeds batches.                *)
(***************************************************************************)
\* the mutexes an operation locks, in the order of its code, each held to
\* the end of the operation
LockOrder(op) ==
    CASE op = "snapshot" -> <<"term", "palette", "search">>
      [] op = "search_set" -> <<"term", "search">>
      [] op = "search_advance" -> <<"search", "term">>
      [] op = "search_clear" -> <<"search">>
      [] op = "set_colors" -> <<"palette">>
      [] op = "scroll" -> <<"term">>

LockingOps == {"snapshot", "search_set", "search_advance", "search_clear", "set_colors",
               "scroll"}

LocksUnchanged ==
    /\ UNCHANGED <<closes, wr, cenv, fair, calc, cnt, crt>>
    /\ UNCHANGED <<hostVars, termVars, readerVars, partialVars, envVars, logVars, scanCall, viewVars>>

\* thread t of the host calls op
LockCall(t, op) ==
    /\ locks.op[t] = "idle"
    /\ locks' = [locks EXCEPT !.op[t] = op, !.want[t] = LockOrder(op)]
    /\ LocksUnchanged

\* thread t gets the next mutex of its operation.  search_advance returns
\* once it holds search and finds no regex or no current match
\* (handle.rs:398-405)
LockAcquire(t) ==
    /\ locks.want[t] # <<>>
    /\ locks.owner[Head(locks.want[t])] = "free"
    /\ locks' = [locks EXCEPT
                    !.owner[Head(locks.want[t])] = t,
                    !.want[t] = IF locks.op[t] = "search_advance" /\ ~locks.some
                                THEN <<>> ELSE Tail(@)]
    /\ LocksUnchanged

\* thread t holds all the mutexes of its operation, does its work and
\* returns: the guards are dropped
LockReturn(t, hit) ==
    /\ locks.op[t] # "idle" /\ locks.want[t] = <<>>
    /\ locks' = [locks EXCEPT
                    !.owner = [m \in Mutexes |-> IF @[m] = t THEN "free" ELSE @[m]],
                    !.op[t] = "idle",
                    !.some = CASE locks.op[t] \in {"search_set", "search_advance"} -> hit
                               [] locks.op[t] = "search_clear" -> FALSE
                               [] OTHER -> @]
    /\ LocksUnchanged

\* pty_reader.rs:93-95: the reader locks the emulator for a batch
LockReader ==
    /\ locks.owner["term"] = "free"
    /\ locks' = [locks EXCEPT !.owner["term"] = "reader"]
    /\ LocksUnchanged

LockReaderUnlock ==
    /\ locks.owner["term"] = "reader"
    /\ locks' = [locks EXCEPT !.owner["term"] = "free"]
    /\ LocksUnchanged

LockNext ==
    \/ \E t \in HostThreads : \E op \in LockingOps : LockCall(t, op)
    \/ \E t \in HostThreads : LockAcquire(t)
    \/ \E t \in HostThreads : \E hit \in BOOLEAN : LockReturn(t, hit)
    \/ LockReader
    \/ LockReaderUnlock

LockSpec == ScanInit /\ [][LockNext]_vars

\* thread t holds mutex m
Holds(t, m) == locks.owner[m] = t

\* thread t waits for a mutex that thread u holds
WaitsFor(t, u) == locks.want[t] # <<>> /\ Holds(u, Head(locks.want[t]))

\* two threads each hold a mutex the other waits for
LockCycle == \E t, u \in HostThreads : t # u /\ WaitsFor(t, u) /\ WaitsFor(u, t)

\* C36: no two operations invoked concurrently from different threads each
\* hold one of the emulator, palette and search-state mutexes while waiting
\* for the other: no interleaving of public operations and the reader
\* deadlocks.
C36_NoLockCycle == ~LockCycle

\* the place of a mutex in the order term, palette, search
LockRank(m) == CASE m = "term" -> 1 [] m = "palette" -> 2 [] m = "search" -> 3

\* C36, first part: every operation that holds more than one mutex takes
\* them in the one order term, palette, search.
C36_OneLockOrder ==
    \A t \in HostThreads :
        locks.want[t] # <<>> =>
            \A m \in Mutexes : Holds(t, m) => LockRank(m) < LockRank(Head(locks.want[t]))

\* what does hold: a cycle always has a search_advance in it, and the
\* reader, which takes the emulator mutex alone, is in none
C36_CycleNeedsSearchAdvance ==
    LockCycle => /\ \E t \in HostThreads : locks.op[t] = "search_advance"
                 /\ \A m \in Mutexes : locks.owner[m] # "reader"
                       \/ \A t \in HostThreads : locks.want[t] = <<>> \/ Head(locks.want[t]) # m

\* a snapshot holds all three mutexes while the other thread waits
C36_WitnessSnapshot ==
    /\ \E t \in HostThreads : locks.op[t] = "snapshot" /\ locks.want[t] = <<>>
    /\ \E t \in HostThreads : locks.want[t] # <<>>
    /\ ~LockCycle

(***************************************************************************)
(* C37.  Who holds the emulator mutex while the reader reads, polls, calls *)
(* the host back and feeds the parser, and while the host writes to the    *)
(* PTY (pty_reader.rs:54-99, handle.rs:232-238).  The specification runs   *)
(* the reader of Spec next to a host that takes snapshots, writes and      *)
(* drops the handle.                                                       *)
(***************************************************************************)
MutexNext ==
    \/ ReaderNext
    \/ SnapshotLock
    \/ SnapshotTake
    \/ HostWrite(TRUE)
    \/ DropNext
    \/ \E c \in {Osc7Chunk, Osc94Chunk} : ChildWrite(c)
    \/ ChildExits(0)
    \/ ReadInterrupted

MutexSpec == Init /\ [][MutexNext]_vars

\* the reader's positions in which it holds no batch to feed: at the top of
\* the loop, in read, in poll and the draining reads, in the two scanners
\* and their callbacks, in the Wakeup, and after the loop
ReaderOutsideFeed ==
    rpc \in {"top", "read", "drain", "scan7", "emit7", "emit94", "wakeup",
             "after_loop", "close_fd", "done"}

\* C37: the reader holds the emulator mutex only while it feeds a batch to
\* the parser, never in read, in poll or in a directory-change, progress or
\* Wakeup callback; the host's write neither takes nor waits for the mutex;
\* so a reader that is not feeding keeps no host operation waiting, and a
\* Wakeup callback finds the mutex not held by its own thread.
C37_MutexOnlyWhileFeeding ==
    /\ termLock = "reader" => rpc = "advance"
    /\ [][termLock' = "reader" => rpc' = "advance"]_vars
    /\ [][(cb' # cb \/ sent' # sent) =>
            (termLock # "reader" /\ termLock' = termLock)]_vars
    /\ [][wr' # wr => termLock' = termLock]_vars
    /\ [][(termLock = "reader" /\ hpc = "run" /\ wr.n < MaxWrites) =>
            ENABLED HostWrite(TRUE)]_vars
    /\ [][(ReaderOutsideFeed /\ hpc = "run" /\ termLock # "host") =>
            ENABLED SnapshotLock]_vars

\* a directory change and a Wakeup have reached the host, the host has
\* written, and now the host holds the mutex for a snapshot while the reader
\* waits in read
C37_Witness ==
    /\ rpc = "read" /\ hpc = "snap" /\ termLock = "host"
    /\ wr.n >= 1
    /\ \E i \in 1..Len(cb) : cb[i].kind = EV_WAKEUP
    /\ \E i \in 1..Len(cb) : cb[i].kind = EV_DIRECTORY_CHANGE

\* the reader is feeding a batch under the mutex and the host can write
C37_WitnessWriteWhileFeeding ==
    /\ termLock = "reader" /\ rpc = "advance" /\ fedIdx >= 1
    /\ hpc = "run" /\ wr.n = 1
    /\ ENABLED HostWrite(TRUE)

(***************************************************************************)
(* C38.  Callbacks and the end of the handle (handle.rs:456-472,           *)
(* pty_reader.rs:81-107, listener.rs:49-75).  cb is the history of the     *)
(* calls of the host's callback, sent the history of the events passed to  *)
(* the listener; the join of Drop has completed from d_fields on.          *)
(***************************************************************************)
Joined == hpc \in {"d_fields", "gone"}

\* C38: once the join in Drop has completed the reader thread has ended, and
\* from then on, so after destroy has returned, no event is passed to the
\* listener and the host's callback is not called; and the callback is never
\* called when the context is null.
C38_NoCallbackAfterDestroy ==
    /\ Joined => rpc = "done"
    /\ [][Joined' => rpc' = "done"]_vars
    /\ [][(cb' # cb \/ sent' # sent) => (~Joined /\ ~Joined' /\ rpc # "done")]_vars
    /\ [][Joined => (cb' = cb /\ sent' = sent /\ Joined')]_vars
    /\ [][cb' # cb => ~ctxNull]_vars

\* destroy has returned after the host was called back for a directory
\* change and for a Wakeup
C38_Witness ==
    /\ hpc = "gone" /\ ~ctxNull
    /\ \E i \in 1..Len(cb) : cb[i].kind = EV_WAKEUP
    /\ \E i \in 1..Len(cb) : cb[i].kind = EV_DIRECTORY_CHANGE

\* destroy has returned; with a null context the listener dropped every
\* event the reader passed to it
C38_WitnessNullContext ==
    /\ hpc = "gone" /\ ctxNull
    /\ Len(sent) >= 2 /\ cb = <<>>

(***************************************************************************)
(* C39.  A stream cut into two batches (pty_reader.rs:82, 87 with          *)
(* scan_osc7 120-168 and scan_osc94 192-238).  A stream is plain bytes, an *)
(* OSC 7 or OSC 9;4 sequence and what follows it; the cut is any place     *)
(* that leaves both batches non-empty.  calc holds the stream, the cut and *)
(* the events of the batches scanned so far, directory urls and progress   *)
(* reports apart.                                                          *)
(***************************************************************************)
CutPres == {<<>>, <<97>>}

\* "u", "1;50"
CutPayloads == {<<117>>, <<49, 59, 53, 48>>}

CutTerms == {<<BEL>>, <<ESC, BACKSLASH>>}

CutPosts == {<<>>, <<98>>, Osc7Ok}

CutStreams ==
    [pre : CutPres, intro : {OSC7_INTRO, OSC94_INTRO}, payload : CutPayloads,
     term : CutTerms, post : CutPosts]

StreamBytes(s) == s.pre \o s.intro \o s.payload \o s.term \o s.post

\* lines 82 and 87 for the first batch, the first k bytes of the stream;
\* the continuation buffers are empty
CutScanFirst(s, k) ==
    /\ calc.fn = "none"
    /\ osc7_partial = <<>> /\ osc94_partial = <<>>
    /\ k >= 1 /\ k < Len(StreamBytes(s))
    /\ LET a == Slice(StreamBytes(s), 0, k)
           r7 == scan_osc7(a, osc7_partial)
           r94 == scan_osc94(a, osc94_partial)
       IN  /\ osc7_partial' = r7.partial
           /\ osc94_partial' = r94.partial
           /\ calc' = [fn |-> "scan_first", args |-> [stream |-> s, cut |-> k],
                       out |-> [urls |-> Urls(r7.results),
                                reports |-> Reports(r94.results)]]
    /\ UNCHANGED <<closes, wr, cenv, fair, cnt, locks, crt>>
    /\ UNCHANGED <<hostVars, termVars, readerVars, envVars, logVars, scanCall, viewVars>>

\* lines 82 and 87 for the second batch, the rest of the stream, with the
\* buffers the first batch left
CutScanSecond ==
    /\ calc.fn = "scan_first"
    /\ LET b == SliceFrom(StreamBytes(calc.args.stream), calc.args.cut)
           r7 == scan_osc7(b, osc7_partial)
           r94 == scan_osc94(b, osc94_partial)
       IN  /\ osc7_partial' = r7.partial
           /\ osc94_partial' = r94.partial
           /\ calc' = [calc EXCEPT !.fn = "scan_second",
                                   !.out = [urls |-> calc.out.urls \o Urls(r7.results),
                                            reports |-> calc.out.reports
                                                            \o Reports(r94.results)]]
    /\ UNCHANGED <<closes, wr, cenv, fair, cnt, locks, crt>>
    /\ UNCHANGED <<hostVars, termVars, readerVars, envVars, logVars, scanCall, viewVars>>

CutNext ==
    \/ \E s \in CutStreams : \E k \in 1..16 : CutScanFirst(s, k)
    \/ CutScanSecond

CutSpec == ScanInit /\ [][CutNext]_vars

\* the events of the whole stream scanned as one batch
WholeScan(s) ==
    [urls |-> Urls(scan_osc7(StreamBytes(s), <<>>).results),
     reports |-> Reports(scan_osc94(StreamBytes(s), <<>>).results)]

\* C39: however a stream is cut into two batches, scanning the two batches
\* in order with shared continuation buffers gives the OSC 7 events, and the
\* OSC 9;4 events, that scanning the stream as one batch gives.
C39_CutIndependent ==
    calc.fn = "scan_second" => calc.out = WholeScan(calc.args.stream)

\* the offsets at which the OSC sequence of the stream, and the OSC 7 that
\* may follow it, have their introducers and the ESC of their ST
IntroStart(s) == Len(s.pre)

IntroEnd(s) == Len(s.pre) + Len(s.intro)

SeqEnd(s) == IntroEnd(s) + Len(s.payload) + Len(s.term)

\* a cut that has a piece of an introducer before it with nothing of the
\* payload, or that parts the ESC and the backslash of an ST
CutInsideMarker(s, k) ==
    \/ k > IntroStart(s) /\ k <= IntroEnd(s)
    \/ s.term = <<ESC, BACKSLASH>> /\ k = SeqEnd(s) - 1
    \/ s.post = Osc7Ok /\ k > SeqEnd(s) /\ k <= SeqEnd(s) + Len(OSC7_INTRO)

\* what the code does keep: a cut outside the introducers and terminators,
\* so in plain bytes, between sequences or inside a payload that has begun,
\* changes no event
C39_CutOutsideMarkers ==
    (calc.fn = "scan_second" /\ ~CutInsideMarker(calc.args.stream, calc.args.cut))
        => calc.out = WholeScan(calc.args.stream)

\* an OSC 7 cut inside its payload: one event with the whole url
C39_WitnessInPayload ==
    /\ calc.fn = "scan_second"
    /\ calc.args.stream.intro = OSC7_INTRO
    /\ calc.args.stream.payload = <<49, 59, 53, 48>>
    /\ calc.args.cut = IntroEnd(calc.args.stream) + 2
    /\ calc.out.urls = <<<<49, 59, 53, 48>>>>

(***************************************************************************)
(* C40.  TerminalHandle::new step by step (handle.rs:100-201) and what a   *)
(* failed step leaves behind (ffi.rs:79-92 turns Err into a null handle).  *)
(* crt holds the parent's position (stage), the step that failed, the      *)
(* descriptors the parent holds (master and slave are OwnedFd and close    *)
(* when dropped, reader_fd is a raw descriptor), whether the reader thread *)
(* exists, the child's position and exit status, whether the child still   *)
(* holds its copy of the master, and whether the hangup of the terminal    *)
(* has been signalled.                                                     *)
(***************************************************************************)
CreateUnchanged ==
    /\ UNCHANGED <<closes, wr, cenv, fair, calc, cnt, locks>>
    /\ UNCHANGED <<hostVars, termVars, readerVars, partialVars, envVars, logVars, scanCall, viewVars>>

\* lines 101-102: openpty, with ? on its error
CreateOpenPty(ok) ==
    /\ crt.stage = "none"
    /\ crt' = IF ok
              THEN [crt EXCEPT !.stage = "fork", !.master = TRUE, !.slave = TRUE]
              ELSE [crt EXCEPT !.stage = "err", !.failed = "openpty"]
    /\ CreateUnchanged

\* lines 121-124: fork; on failure Err is returned and the two OwnedFd drop
CreateFork(ok, ignores) ==
    /\ crt.stage = "fork"
    /\ crt' = IF ok
              THEN [crt EXCEPT !.stage = "drop_slave", !.child = "setsid",
                               !.child_master = TRUE, !.ignores_hup = ignores]
              ELSE [crt EXCEPT !.stage = "err", !.failed = "fork",
                               !.master = FALSE, !.slave = FALSE]
    /\ CreateUnchanged

\* line 173: the parent drops the slave
CreateDropSlave ==
    /\ crt.stage = "drop_slave"
    /\ crt' = [crt EXCEPT !.stage = "dup", !.slave = FALSE]
    /\ CreateUnchanged

\* lines 186-189: dup of the master; on failure Err is returned and the
\* master drops
CreateDup(ok) ==
    /\ crt.stage = "dup"
    /\ crt' = IF ok
              THEN [crt EXCEPT !.stage = "spawn", !.reader_fd = TRUE]
              ELSE [crt EXCEPT !.stage = "err", !.failed = "dup", !.master = FALSE]
    /\ CreateUnchanged

\* lines 194-201: the reader thread is spawned; on failure the closure is
\* dropped, which closes nothing as reader_fd is an integer, Err is returned
\* and the master drops
CreateSpawn(ok) ==
    /\ crt.stage = "spawn"
    /\ crt' = IF ok
              THEN [crt EXCEPT !.stage = "ok", !.thread = TRUE]
              ELSE [crt EXCEPT !.stage = "err", !.failed = "spawn", !.master = FALSE]
    /\ CreateUnchanged

\* line 129: the child makes its own session
CreateChildSession ==
    /\ crt.child = "setsid"
    /\ crt' = [crt EXCEPT !.child = "ctty"]
    /\ CreateUnchanged

\* line 132: the slave becomes the child's controlling terminal
CreateChildCtty ==
    /\ crt.child = "ctty"
    /\ crt' = [crt EXCEPT !.child = "stdio"]
    /\ CreateUnchanged

\* lines 135-137: the slave becomes the child's stdin, stdout and stderr
CreateChildStdio ==
    /\ crt.child = "stdio"
    /\ crt' = [crt EXCEPT !.child = "close"]
    /\ CreateUnchanged

\* lines 138-139: the child drops its copies of the two descriptors
CreateChildClose ==
    /\ crt.child = "close"
    /\ crt' = [crt EXCEPT !.child = "chdir", !.child_master = FALSE]
    /\ CreateUnchanged

\* lines 142-150: the working directory and the environment
CreateChildEnv ==
    /\ crt.child = "chdir"
    /\ crt' = [crt EXCEPT !.child = "exec"]
    /\ CreateUnchanged

\* lines 152-164: argv and execvp; when it returns the child ends with _exit(127)
CreateChildExec(ok) ==
    /\ crt.child = "exec"
    /\ crt' = IF ok THEN [crt EXCEPT !.child = "shell"]
              ELSE [crt EXCEPT !.child = "exited", !.status = 127]
    /\ CreateUnchanged

\* the shell ends by itself
CreateShellExits ==
    /\ crt.child = "shell"
    /\ crt' = [crt EXCEPT !.child = "exited", !.status = 0]
    /\ CreateUnchanged

\* the kernel: once no descriptor of the master is open any more, the
\* session that has the slave as its controlling terminal gets SIGHUP, which
\* ends a child that does not ignore it
ChildRunning == crt.child \notin {"none", "exited"}

MasterOpenSomewhere == crt.master \/ crt.reader_fd \/ crt.child_master

CreateHangup ==
    /\ crt.child \in {"stdio", "close", "chdir", "exec", "shell"}
    /\ ~MasterOpenSomewhere
    /\ ~crt.hup
    /\ crt' = IF crt.ignores_hup
              THEN [crt EXCEPT !.hup = TRUE]
              ELSE [crt EXCEPT !.hup = TRUE, !.child = "exited", !.status = 129]
    /\ CreateUnchanged

CreateNext ==
    \/ \E ok \in BOOLEAN : CreateOpenPty(ok)
    \/ \E ok \in BOOLEAN : \E ignores \in BOOLEAN : CreateFork(ok, ignores)
    \/ CreateDropSlave
    \/ \E ok \in BOOLEAN : CreateDup(ok)
    \/ \E ok \in BOOLEAN : CreateSpawn(ok)
    \/ CreateChildSession
    \/ CreateChildCtty
    \/ CreateChildStdio
    \/ CreateChildClose
    \/ CreateChildEnv
    \/ \E ok \in BOOLEAN : CreateChildExec(ok)
    \/ CreateShellExits
    \/ CreateHangup

CreateSpec == ScanInit /\ [][CreateNext]_vars

\* C40: when create has failed, at whatever step, no child is left running,
\* there is no reader thread, and every descriptor create opened is closed.
C40_FailedCreateLeavesNothing ==
    crt.stage = "err" =>
        /\ ~ChildRunning
        /\ ~crt.thread
        /\ ~crt.master /\ ~crt.slave /\ ~crt.reader_fd

\* the descriptors and the thread alone: the claim without the child
C40_FailedCreateClosesDescriptors ==
    crt.stage = "err" =>
        /\ ~crt.thread
        /\ ~crt.master /\ ~crt.slave /\ ~crt.reader_fd

\* what the code does keep: there is never a reader thread after a failure;
\* a failure of openpty or fork leaves nothing at all; a failure of dup
\* leaves no descriptor open in the parent, and a child that is ended by
\* the hangup of its terminal unless it ignores SIGHUP.
C40_CleanUnlessSpawnFails ==
    crt.stage = "err" =>
        /\ ~crt.thread /\ ~crt.master /\ ~crt.slave
        /\ crt.failed \in {"openpty", "fork"} => (crt.child = "none" /\ ~crt.reader_fd)
        /\ crt.failed = "dup" =>
               /\ ~crt.reader_fd
               /\ (ChildRunning /\ ~crt.ignores_hup) => ~crt.hup
        /\ crt.reader_fd => crt.failed = "spawn"

\* fork failed: both descriptors of the pair are closed and there is no child
C40_WitnessForkFailed ==
    /\ crt.stage = "err" /\ crt.failed = "fork"
    /\ ~crt.master /\ ~crt.slave /\ crt.child = "none"

====
